---- MODULE Spec2Model ----
(***************************************************************************)
(* reproq-django: the task_runs table, the producer path (enqueue and      *)
(* bulk_enqueue), the reclaim and cancel commands, the admin actions, and  *)
(* the worker's claim / heartbeat / finalize protocol.                     *)
(*                                                                         *)
(* One database alias; every SQL statement is one step (autocommit).       *)
(***************************************************************************)
EXTENDS Integers, Sequences, FiniteSets, TLC

\* ------------------------------------------------------------- bounds
MaxRows == 2
MaxTime == 2
NumSpecs == 5
NumMainSpecs == 2
NumProducers == 2
NumWorkers == 2
MaxAttemptsOpt == 2
MaxLimitOpt == 1
MaxOlderThan == 1
MaxBatch == 2
NumSchedulers == 2
CronPeriod == 2

\* ------------------------------------------------------------- constants
NULL == -1
NoKey == "NULL"
LeaseSeconds == 1
AgingFactor == 1
BackoffSeconds == 0

Producers == 1..NumProducers
Workers == 1..NumWorkers
Schedulers == 1..NumSchedulers
TaskSpecs == 1..NumSpecs

\* The signed 32-bit range of a priority, the range of a SMALLINT column and
\* the range of the CHECK constraint on task_runs.priority.
IntMax == 2147483647
IntMin == (0 - IntMax) - 1
SmallintMax == 32767
SmallintMin == -32768
CheckMax == 100
CheckMin == -100

\* Priorities at the edges of the three ranges, and the specs that carry them.
EdgePriorities ==
    <<IntMax, IntMin, CheckMax, CheckMin, CheckMax + 1, CheckMin - 1,
      SmallintMax + 1>>
EdgeSpecs == (NumSpecs + 1)..(NumSpecs + Len(EdgePriorities))
MainSpecs == 1..NumMainSpecs

VARIABLES rows, now, prod, held, rec, adm, paused, last, dedup, aging, wfr,
          periodic, beat, call, exe, doc, registry, ptasks, sync, waiter

vars == <<rows, now, prod, held, rec, adm, paused, last, dedup, aging, wfr, periodic, beat,
          call, exe, doc, registry, ptasks, sync, waiter>>

\* ------------------------------------------------------------- the table
InFlight(r) == r.status \in {"READY", "RUNNING"}

Terminal(r) == r.status \in {"SUCCESSFUL", "FAILED", "CANCELLED"}

Ids == 1..Len(rows)

\* The partial unique index on spec_hash over READY and RUNNING rows, without it.
UniqueOkNoIndex(t) == TRUE

\* The partial unique index on spec_hash over READY and RUNNING rows.
UniqueOk(t) ==
    \A i \in DOMAIN t : \A j \in DOMAIN t :
        (i # j /\ InFlight(t[i]) /\ InFlight(t[j])) => t[i].spec_hash # t[j].spec_hash

\* priority SMALLINT NOT NULL: a value outside the type is a DataError.
SmallintOk(r) == r.priority >= SmallintMin /\ r.priority <= SmallintMax

\* CHECK (priority BETWEEN -100 AND 100): a violation is an IntegrityError.
PriorityCheckOk(r) == r.priority >= CheckMin /\ r.priority <= CheckMax

\* INSERT of the last row of t: "data" (DataError), "integrity"
\* (IntegrityError) or "none".
InsertError(t) ==
    IF ~SmallintOk(t[Len(t)]) THEN "data"
    ELSE IF ~PriorityCheckOk(t[Len(t)]) \/ ~UniqueOk(t) THEN "integrity"
    ELSE "none"

\* SELECT ... WHERE spec_hash = h AND status IN ('READY', 'RUNNING'), ids.
ActiveIds(t, h) == {i \in DOMAIN t : t[i].spec_hash = h /\ InFlight(t[i])}

\* The dedup SELECT matching READY rows only.
FirstActiveReadyOnly(t, h) ==
    IF \A i \in DOMAIN t : ~(t[i].spec_hash = h /\ t[i].status = "READY") THEN 0
    ELSE CHOOSE i \in DOMAIN t :
            /\ t[i].spec_hash = h /\ t[i].status = "READY"
            /\ \A j \in DOMAIN t : (t[j].spec_hash = h /\ t[j].status = "READY") => i <= j

\* The dedup SELECT without its spec_hash condition.
FirstActiveAnyHash(t, h) ==
    IF \A i \in DOMAIN t : ~InFlight(t[i]) THEN 0
    ELSE CHOOSE i \in DOMAIN t : InFlight(t[i]) /\ \A j \in DOMAIN t : InFlight(t[j]) => i <= j

\* .first() of the dedup SELECT: the id of a matching row, 0 when none.
FirstActive(t, h) ==
    IF ActiveIds(t, h) = {} THEN 0
    ELSE CHOOSE i \in ActiveIds(t, h) : \A j \in ActiveIds(t, h) : i <= j

\* ------------------------------------------------------------- task specs
\* The tasks a producer may enqueue: the fingerprint h stands for the whole
\* specification, so the reserved fields are functions of h.
\* Inputs that enqueue rejects before it reaches the table, and the specs
\* that carry them.
BadInputs == <<"unknown_queue", "naive_datetime", "not_a_datetime">>
BadSpecs ==
    (NumSpecs + Len(EdgePriorities) + 1)..
        (NumSpecs + Len(EdgePriorities) + Len(BadInputs))
BadInput(h) ==
    IF h \in BadSpecs THEN BadInputs[h - NumSpecs - Len(EdgePriorities)]
    ELSE "none"

\* params["QUEUES"]: the configured allowlist.
AllowedQueues == {"default", "other"}

\* The specs of tasks whose queue_name is "other".
NumOtherSpecs == 1
OtherSpecs ==
    (NumSpecs + Len(EdgePriorities) + Len(BadInputs) + 1)..
        (NumSpecs + Len(EdgePriorities) + Len(BadInputs) + NumOtherSpecs)

\* The fingerprints bulk_enqueue keeps result ids for.
Hashes == TaskSpecs \cup OtherSpecs

SpecQueue(h) ==
    IF BadInput(h) = "unknown_queue" THEN "nowhere"
    ELSE IF h \in OtherSpecs THEN "other"
    ELSE "default"

\* The kind of value passed as run_after.
SpecRunAfterKind(h) ==
    IF BadInput(h) = "naive_datetime" THEN "naive"
    ELSE IF BadInput(h) = "not_a_datetime" THEN "other"
    ELSE "none"

\* _normalize_run_after returns (TRUE) or raises (FALSE).
RunAfterOk(kind) == kind \in {"none", "duration", "aware"}

\* _validate_queue returns (TRUE) or raises (FALSE).
QueueOk(q) == q \in AllowedQueues

\* A validation that lets every input through.
AcceptsAll(h) == TRUE

\* The validation at the head of enqueue and of the first loop of
\* bulk_enqueue.
Accepts(h) == RunAfterOk(SpecRunAfterKind(h)) /\ QueueOk(SpecQueue(h))

SpecPriority(h) ==
    IF h \in EdgeSpecs THEN EdgePriorities[h - NumSpecs] ELSE (h % 3) * 5

SpecLockKey(h) == IF h <= 2 THEN "k1" ELSE NoKey

\* concurrency_key as passed: a key, or a blank string.
SpecRawConcKey(h) ==
    CASE h = 1 -> "c2"
      [] h = 2 -> "c1"
      [] h = 3 -> "c1"
      [] h = 4 -> "c2"
      [] h = 5 -> "c1"
      [] OTHER -> " "

\* concurrency_limit as passed: None (k = "none"), an integer v, a float of v
\* halves (v = 3 is 1.5), or a value int() raises on (k = "bad").
SpecRawLimit(h) ==
    CASE h = 1 -> [k |-> "int", v |-> 0 - 1]
      [] h = 2 -> [k |-> "int", v |-> MaxLimitOpt]
      [] h = 3 -> [k |-> "int", v |-> MaxLimitOpt]
      [] h = 4 -> [k |-> "bad", v |-> 0]
      [] h = 5 -> [k |-> "float", v |-> 2 * MaxLimitOpt + 1]
      [] OTHER -> [k |-> "none", v |-> 0]

\* _resolve_concurrency: the key.
ResolveKey(raw) == IF raw \in {"", " "} THEN NoKey ELSE raw

\* int(limit): an integer is itself, a float is truncated toward zero.
IntOf(raw) ==
    IF raw.k = "int" THEN raw.v
    ELSE IF raw.v >= 0 THEN raw.v \div 2
    ELSE 0 - ((0 - raw.v) \div 2)

\* _resolve_concurrency: the limit, without the clamp of negative values.
ResolveLimitUnclamped(raw) ==
    IF raw.k \in {"none", "bad"} THEN 0 ELSE IntOf(raw)

\* _resolve_concurrency: the limit.
ResolveLimit(raw) ==
    IF raw.k = "none" THEN 0
    ELSE IF raw.k = "bad" THEN 0
    ELSE IF IntOf(raw) < 0 THEN 0
    ELSE IntOf(raw)

\* The routing fields of the spec dict a producer builds and stores as spec_json.
SpecJson(q, pr, lk, ck, cl, ma) ==
    [ queue_name |-> q, priority |-> pr, lock_key |-> lk, concurrency_key |-> ck,
      concurrency_limit |-> cl, max_attempts |-> ma ]

\* _try_insert: the row TaskRun.objects.create inserts.
NewRow(h) ==
    [ spec_hash |-> h,
      queue_name |-> SpecQueue(h),
      priority |-> SpecPriority(h),
      status |-> "READY",
      attempts |-> 0,
      max_attempts |-> MaxAttemptsOpt,
      lock_key |-> SpecLockKey(h),
      concurrency_key |-> ResolveKey(SpecRawConcKey(h)),
      concurrency_limit |-> ResolveLimit(SpecRawLimit(h)),
      run_after |-> NULL,
      enqueued_at |-> now,
      started_at |-> NULL,
      last_attempted_at |-> NULL,
      finished_at |-> NULL,
      leased_until |-> NULL,
      leased_by |-> 0,
      cancel_requested |-> FALSE,
      errors |-> <<>>,
      has_return |-> FALSE,
      parent_id |-> 0,
      workflow_id |-> 0,
      wait_count |-> 0,
      spec_json |-> SpecJson(SpecQueue(h), SpecPriority(h), SpecLockKey(h),
                             ResolveKey(SpecRawConcKey(h)), ResolveLimit(SpecRawLimit(h)),
                             MaxAttemptsOpt) ]

\* ------------------------------------------------------------- producers
Range(f) == {f[i] : i \in DOMAIN f}

NoIds == [h \in Hashes |-> 0]

\* No WorkflowRun row for a workflow_id.
NoRun == [expected_count |-> -1, success_count |-> 0, failure_count |-> 0,
          callback_result_id |-> 0, status |-> "none"]

\* The PeriodicTask row of one recurring task, as sync_recurring_tasks left it
\* (next_run_at 0), and the lock a scheduler transaction holds on it.
HourlyTask ==
    [enabled |-> TRUE, next_run_at |-> 0, last_run_at |-> NULL, locked_by |-> 0]

\* A scheduler replica between ticks.
IdleBeat == [pc |-> "idle", at |-> NULL]

IdleProd ==
    [ pc |-> "idle", op |-> "none", h |-> 0,
      batch |-> <<>>, runs |-> <<>>, rids |-> NoIds, i |-> 0, out |-> <<>>,
      n |-> 0, groups |-> <<>>, g |-> 0, base |-> 0 ]

\* What the most recent call to return has returned: enqueue returns the id of
\* a row (res) that it has inserted (created) or found, bulk_enqueue the ids of
\* the rows of its entries (out); res = -1 when the call raised.
NoCall ==
    [ p |-> 0, op |-> "none", h |-> 0, res |-> 0, created |-> FALSE,
      batch |-> <<>>, out |-> <<>> ]

\* enqueue of producer state c returns id (or raises: id = -1).
Returned(p, c, id, created) ==
    [ p |-> p, op |-> c.op, h |-> c.h, res |-> id, created |-> created,
      batch |-> <<>>, out |-> <<>> ]

\* No enqueue whose kwargs are followed, no executor run, no document under
\* serialization, an empty task registry, an empty PeriodicTask table (a row
\* per name, present or not) and no sync_recurring_tasks run yet.
IdleCall ==
    [ pc |-> "idle", op |-> "none", kwargs |-> <<>>, left |-> <<>>,
      row |-> <<>>, spec |-> <<>> ]
IdleExe ==
    [ pc |-> "idle",
      input |-> [payload |-> "ok", import |-> "ok", args |-> "ok",
                 task |-> "returns", writes |-> FALSE],
      handlers |-> FALSE, redirected |-> FALSE, out |-> <<>>, captured |-> <<>>,
      code |-> "none", exit |-> "none" ]
IdleDoc == [pc |-> "idle", in |-> <<>>, flip |-> "none", out |-> <<>>]
NoRegistry == <<>>
RecurringKeys == {"a", "b"}
NoTask == [present |-> FALSE, cron_expr |-> 0, payload |-> 0, enabled |-> FALSE,
           next_run_at |-> 0]
NoPeriodic == [n \in RecurringKeys |-> NoTask]
IdleSync == [pc |-> "idle", clear |-> FALSE, total |-> 0]
\* A TaskResultProxy nobody waits on; members are the names the build's
\* TaskResultStatus has beside READY, RUNNING, FAILED and SUCCESSFUL.
IdleWait == [pc |-> "idle", id |-> 0, timeout |-> NULL, start |-> 0, seen |-> "none",
             members |-> {}]

\* (limit: the --limit option; seen: the table as the run's first SELECT read
\* it; dry: the last run was a dry run.)
IdleRec == [pc |-> "idle", at |-> 0, cutoff |-> 0, incl |-> FALSE, ids |-> {},
            limited |-> FALSE, snap |-> <<>>, limit |-> 0, seen |-> <<>>, dry |-> FALSE]

IdleAdm == [pc |-> "idle", sel |-> {}]

Init ==
    /\ rows = <<>>
    /\ now = 0
    /\ prod = [p \in Producers |-> IdleProd]
    /\ held = [w \in Workers |-> 0]
    /\ rec = IdleRec
    /\ adm = IdleAdm
    /\ paused = {}
    /\ last = NoCall
    /\ dedup \in BOOLEAN
    /\ aging \in {0, AgingFactor}
    /\ wfr = [k \in Producers |-> NoRun]
    /\ periodic = HourlyTask
    /\ beat = [s \in Schedulers |-> IdleBeat]
    /\ call = IdleCall
    /\ exe = IdleExe
    /\ doc = IdleDoc
    /\ registry = NoRegistry
    /\ ptasks = NoPeriodic
    /\ sync = IdleSync
    /\ waiter = IdleWait

Tick ==
    /\ now < MaxTime
    /\ now' = now + 1
    /\ UNCHANGED <<waiter, call, exe, doc, registry, ptasks, sync, rows, prod, held, rec, adm, paused, last, dedup, aging, wfr, periodic, beat>>

\* (base: the length of the table when the call began.)
\* A call of producer p returns r.
Return(p, r) ==
    /\ prod' = [prod EXCEPT ![p] = IdleProd]
    /\ last' = r

\* A call of producer p goes on in state c.
Continue(p, c) ==
    /\ prod' = [prod EXCEPT ![p] = c]
    /\ last' = last

\* --- ReproqBackend.enqueue
\* The call up to and including its first statement: the insert when dedup is
\* off, the dedup SELECT otherwise.
EnqueueCall(p, h) ==
    /\ prod[p].pc = "idle"
    /\ LET c == [IdleProd EXCEPT !.op = "enqueue", !.h = h]
           t == Append(rows, NewRow(h))
       IN  IF ~Accepts(h)
           THEN /\ rows' = rows
                /\ Return(p, Returned(p, c, -1, FALSE))
           ELSE IF ~dedup
           THEN IF InsertError(t) = "none"
                THEN /\ Len(rows) < MaxRows
                     /\ rows' = t
                     /\ Return(p, Returned(p, c, Len(t), TRUE))
                ELSE /\ rows' = rows
                     /\ Return(p, Returned(p, c, -1, FALSE))
           ELSE /\ rows' = rows
                /\ IF FirstActive(rows, h) # 0
                   THEN Return(p, Returned(p, c, FirstActive(rows, h), FALSE))
                   ELSE Continue(p, [c EXCEPT !.pc = "insert"])
    /\ UNCHANGED <<waiter, call, exe, doc, registry, ptasks, sync, now, held, rec, adm, paused, dedup, aging, wfr, periodic, beat>>

\* try: _try_insert() ... except IntegrityError
EnqueueInsert(p) ==
    /\ prod[p].pc = "insert"
    /\ LET c == prod[p]
           t == Append(rows, NewRow(c.h))
       IN  IF InsertError(t) = "none"
           THEN /\ Len(rows) < MaxRows
                /\ rows' = t
                /\ Return(p, Returned(p, c, Len(t), TRUE))
           ELSE /\ rows' = rows
                /\ IF InsertError(t) = "integrity"
                   THEN Continue(p, [c EXCEPT !.pc = "reselect"])
                   ELSE Return(p, Returned(p, c, -1, FALSE))
    /\ UNCHANGED <<waiter, call, exe, doc, registry, ptasks, sync, now, held, rec, adm, paused, dedup, aging, wfr, periodic, beat>>

\* The SELECT of the except branch.
EnqueueReselect(p) ==
    /\ prod[p].pc = "reselect"
    /\ LET c == prod[p]
       IN  IF FirstActive(rows, c.h) # 0
           THEN Return(p, Returned(p, c, FirstActive(rows, c.h), FALSE))
           ELSE Continue(p, [c EXCEPT !.pc = "reinsert"])
    /\ UNCHANGED <<waiter, call, exe, doc, registry, ptasks, sync, rows, now, held, rec, adm, paused, dedup, aging, wfr, periodic, beat>>

\* The second _try_insert(); a second IntegrityError becomes RuntimeError.
EnqueueReinsert(p) ==
    /\ prod[p].pc = "reinsert"
    /\ LET c == prod[p]
           t == Append(rows, NewRow(c.h))
       IN  IF InsertError(t) = "none"
           THEN /\ Len(rows) < MaxRows
                /\ rows' = t
                /\ Return(p, Returned(p, c, Len(t), TRUE))
           ELSE /\ rows' = rows
                /\ Return(p, Returned(p, c, -1, FALSE))
    /\ UNCHANGED <<waiter, call, exe, doc, registry, ptasks, sync, now, held, rec, adm, paused, dedup, aging, wfr, periodic, beat>>

Enqueue(p) ==
    \/ \E h \in MainSpecs : EnqueueCall(p, h)
    \/ EnqueueInsert(p)
    \/ EnqueueReselect(p)
    \/ EnqueueReinsert(p)

\* --- ReproqBackend.bulk_enqueue
\* resolve_queue_db: the database alias of a queue (the queue "other" is mapped
\* to a second database).
DbAlias(q) == IF q = "other" THEN "replica" ELSE "default"

EntryAlias(batch, k) == DbAlias(SpecQueue(batch[k]))

\* grouped: the positions ks of the batch by alias, the aliases in the order of
\* their first entry (a dict keeps insertion order).
RECURSIVE GroupBy(_, _)
GroupBy(batch, ks) ==
    IF ks = <<>> THEN <<>>
    ELSE LET same(k) == EntryAlias(batch, k) = EntryAlias(batch, Head(ks))
             rest(k) == ~same(k)
         IN  <<SelectSeq(ks, same)>> \o GroupBy(batch, SelectSeq(ks, rest))

\* ordered: the positions of the batch as passed.
Positions(batch) == [k \in 1..Len(batch) |-> k]

\* entries: the hashes of the alias group the call is working on.
GroupHashes(c) ==
    [j \in 1..Len(c.groups[c.g]) |-> c.batch[c.groups[c.g][j]]]

\* The rows to insert: every entry whose hash has no match yet (with dedup, once
\* per hash).
RECURSIVE BuildRuns(_, _, _)
BuildRuns(b, d, seen) ==
    IF b = <<>> THEN <<>>
    ELSE IF d /\ Head(b) \in seen THEN BuildRuns(Tail(b), d, seen)
    ELSE <<Head(b)>> \o BuildRuns(Tail(b), d, seen \cup {Head(b)})

\* bulk_create(runs, ignore_conflicts=True): a row that conflicts is skipped.
RECURSIVE InsertIgnore(_, _)
InsertIgnore(t, hs) ==
    IF hs = <<>> THEN t
    ELSE IF UniqueOk(Append(t, NewRow(Head(hs))))
         THEN InsertIgnore(Append(t, NewRow(Head(hs))), Tail(hs))
         ELSE InsertIgnore(t, Tail(hs))

\* return [results_by_entry[id(entry)] for entry in ordered]
Handles(c) == [k \in 1..Len(c.batch) |-> c.out[k]]

\* bulk_enqueue of producer state c returns its handles (code 0) or raises (-1).
BulkReturned(p, c, code) ==
    [ p |-> p, op |-> c.op, h |-> 0, res |-> code, created |-> FALSE,
      batch |-> c.batch, out |-> IF code = 0 THEN Handles(c) ELSE <<>> ]

\* The final loop of a group up to its next create(): entries with a known id
\* get their handle (results_by_entry, c.out, is keyed by the entry).
RECURSIVE Advance(_)
Advance(c) ==
    IF c.i > Len(c.groups[c.g])
    THEN [c EXCEPT !.pc = IF c.g < Len(c.groups) THEN "bgroup" ELSE "done"]
    ELSE LET k == c.groups[c.g][c.i]
         IN  IF c.rids[c.batch[k]] # 0
             THEN Advance([c EXCEPT !.out[k] = c.rids[c.batch[k]], !.i = @ + 1])
             ELSE [c EXCEPT !.pc = "bfallback"]

\* The final loop runs from state c: to the return, to the next group or to the
\* next create().
Loop(p, c) ==
    IF Advance(c).pc = "done"
    THEN Return(p, BulkReturned(p, Advance(c), 0))
    ELSE Continue(p, Advance(c))

\* A group up to and including its first statement: the prefetch SELECT (dedup),
\* result_ids (c.rids) starting empty for the group.
StartGroup(p, c) ==
    LET hs == GroupHashes(c)
        found == [h \in Hashes |->
                    IF dedup /\ h \in Range(hs) THEN FirstActive(rows, h) ELSE 0]
        runs == BuildRuns(hs, dedup, {h \in Hashes : found[h] # 0})
        d == [c EXCEPT !.runs = runs, !.rids = found, !.i = 1]
    IN  IF runs = <<>> THEN Loop(p, d)
        ELSE Continue(p, [d EXCEPT !.pc = "bcreate"])

\* The call up to and including its first statement: every entry is validated
\* and built, then the first group starts.
BulkCall(p, batch) ==
    /\ prod[p].pc = "idle"
    /\ LET c == [IdleProd EXCEPT !.op = "bulk", !.batch = batch, !.g = 1,
                                 !.base = Len(rows),
                                 !.groups = GroupBy(batch, Positions(batch)),
                                 !.out = [k \in 1..Len(batch) |-> 0]]
       IN  IF \E k \in DOMAIN batch : ~Accepts(batch[k])
           THEN Return(p, BulkReturned(p, c, -1))
           ELSE StartGroup(p, c)
    /\ UNCHANGED <<waiter, call, exe, doc, registry, ptasks, sync, rows, now, held, rec, adm, paused, dedup, aging, wfr, periodic, beat>>

\* The next database alias of grouped.items().
BulkGroup(p) ==
    /\ prod[p].pc = "bgroup"
    /\ StartGroup(p, [prod[p] EXCEPT !.g = @ + 1])
    /\ UNCHANGED <<waiter, call, exe, doc, registry, ptasks, sync, rows, now, held, rec, adm, paused, dedup, aging, wfr, periodic, beat>>

\* bulk_create: one INSERT ... ON CONFLICT DO NOTHING (the table holding at most
\* cap rows).
BulkCreateUpTo(p, cap) ==
    /\ prod[p].pc = "bcreate"
    /\ LET t == InsertIgnore(rows, prod[p].runs)
       IN  /\ Len(t) <= cap
           /\ rows' = t
    /\ Continue(p, [prod[p] EXCEPT !.pc = "breload"])
    /\ UNCHANGED <<waiter, call, exe, doc, registry, ptasks, sync, now, held, rec, adm, paused, dedup, aging, wfr, periodic, beat>>

BulkCreate(p) == BulkCreateUpTo(p, MaxRows)

\* The SELECT that reloads the ids of the in-flight rows of run_hashes.
BulkReload(p) ==
    /\ prod[p].pc = "breload"
    /\ LET c == prod[p]
           rids == [h \in Hashes |->
                      IF h \in Range(c.runs) /\ FirstActive(rows, h) # 0
                      THEN FirstActive(rows, h) ELSE c.rids[h]]
       IN  Loop(p, [c EXCEPT !.rids = rids])
    /\ UNCHANGED <<waiter, call, exe, doc, registry, ptasks, sync, rows, now, held, rec, adm, paused, dedup, aging, wfr, periodic, beat>>

\* The create() of the final loop for an entry without result id; its id goes
\* to the entry's handle, not to result_ids.
BulkFallbackUpTo(p, cap) ==
    /\ prod[p].pc = "bfallback"
    /\ LET c == prod[p]
           k == c.groups[c.g][c.i]
           t == Append(rows, NewRow(c.batch[k]))
       IN  IF UniqueOk(t)
           THEN /\ Len(rows) < cap
                /\ rows' = t
                /\ Loop(p, [c EXCEPT !.out[k] = Len(t), !.i = @ + 1])
           ELSE /\ rows' = rows
                /\ Return(p, BulkReturned(p, c, -1))
    /\ UNCHANGED <<waiter, call, exe, doc, registry, ptasks, sync, now, held, rec, adm, paused, dedup, aging, wfr, periodic, beat>>

BulkFallback(p) == BulkFallbackUpTo(p, MaxRows)

Batches == UNION {[1..n -> MainSpecs] : n \in 1..MaxBatch}

Bulk(p) ==
    \/ \E b \in Batches : BulkCall(p, b)
    \/ BulkCreate(p)
    \/ BulkReload(p)
    \/ BulkFallback(p)

\* ------------------------------------------------------------- workers
\* The worker's queues (its configuration: queues = ["default"]).
WorkerQueues(w) == {"default"}

\* If lock_key is set: no other row with the same lock_key is RUNNING, without the gate.
LockFreeNoGate(t, i) == TRUE

\* If lock_key is set: no other row with the same lock_key is RUNNING.
LockFree(t, i) ==
    \/ t[i].lock_key = NoKey
    \/ \A j \in DOMAIN t :
          (j # i /\ t[j].status = "RUNNING") => t[j].lock_key # t[i].lock_key

RunningWithKey(t, k) ==
    {j \in DOMAIN t : t[j].status = "RUNNING" /\ t[j].concurrency_key = k}

\* If concurrency_key is set with limit L: strictly fewer than L rows with the
\* same key are RUNNING; limit 0 means unlimited.
ConcFree(t, i) ==
    \/ t[i].concurrency_key = NoKey
    \/ t[i].concurrency_limit = 0
    \/ Cardinality(RunningWithKey(t, t[i].concurrency_key)) < t[i].concurrency_limit

\* The selection predicate of the claim, without its status test.
EligibleAnyStatus(t, i, w) ==
    /\ t[i].status \in {"READY", "RUNNING"}
    /\ t[i].queue_name \in WorkerQueues(w)

\* The selection predicate with a strict comparison of run_after.
EligibleStrictlyAfter(t, i, w) ==
    /\ t[i].status = "READY"
    /\ t[i].queue_name \in WorkerQueues(w)
    /\ (t[i].run_after = NULL \/ t[i].run_after < now)
    /\ t[i].queue_name \notin paused
    /\ LockFree(t, i)
    /\ ConcFree(t, i)

\* The selection predicate of the claim.
Eligible(t, i, w) ==
    /\ t[i].status = "READY"
    /\ t[i].queue_name \in WorkerQueues(w)
    /\ (t[i].run_after = NULL \/ t[i].run_after <= now)
    /\ t[i].queue_name \notin paused
    /\ LockFree(t, i)
    /\ ConcFree(t, i)

Coalesce(a, b) == IF a = NULL THEN b ELSE a

\* The priority the claim orders by: aged when an aging factor is configured.
Effective(t, i) ==
    IF aging = 0 THEN t[i].priority
    ELSE t[i].priority + ((now - t[i].enqueued_at) \div aging)

\* The ordering of the claim without its COALESCE(run_after, enqueued_at) key.
BeforeByEnqueuedOnly(t, i, j) ==
    \/ Effective(t, i) > Effective(t, j)
    \/ /\ Effective(t, i) = Effective(t, j)
       /\ \/ t[i].enqueued_at < t[j].enqueued_at
          \/ (t[i].enqueued_at = t[j].enqueued_at /\ i < j)

\* The ordering of the claim: row i comes before row j.
Before(t, i, j) ==
    LET ci == Coalesce(t[i].run_after, t[i].enqueued_at)
        cj == Coalesce(t[j].run_after, t[j].enqueued_at)
    IN  \/ Effective(t, i) > Effective(t, j)
        \/ /\ Effective(t, i) = Effective(t, j)
           /\ \/ ci < cj
              \/ /\ ci = cj
                 /\ \/ t[i].enqueued_at < t[j].enqueued_at
                    \/ (t[i].enqueued_at = t[j].enqueued_at /\ i < j)

Candidates(t, w) == {i \in DOMAIN t : Eligible(t, i, w)}

\* The first candidate in claim order (max_n = 1).
ClaimPick(t, w) ==
    CHOOSE i \in Candidates(t, w) : \A j \in Candidates(t, w) : j = i \/ Before(t, i, j)

AttemptCap == MaxAttemptsOpt + 1

\* claim(worker_id, queues, 1, now): one transaction.
Claim(w) ==
    /\ held[w] = 0
    /\ Candidates(rows, w) # {}
    /\ LET i == ClaimPick(rows, w)
           r == rows[i]
       IN  /\ r.attempts < AttemptCap
           /\ rows' = [rows EXCEPT ![i] =
                  [r EXCEPT !.status = "RUNNING",
                            !.attempts = @ + 1,
                            !.started_at = IF @ = NULL THEN now ELSE @,
                            !.last_attempted_at = now,
                            !.leased_by = w,
                            !.leased_until = now + LeaseSeconds]]
           /\ held' = [held EXCEPT ![w] = i]
    /\ UNCHANGED <<waiter, call, exe, doc, registry, ptasks, sync, now, prod, rec, adm, paused, last, dedup, aging, wfr, periodic, beat>>

\* Heartbeat tick: extends the lease of every RUNNING row the worker leases.
Heartbeat(w) ==
    /\ \E i \in Ids : /\ rows[i].status = "RUNNING"
                      /\ rows[i].leased_by = w
                      /\ rows[i].leased_until # now + LeaseSeconds
    /\ rows' = [i \in Ids |->
                  IF rows[i].status = "RUNNING" /\ rows[i].leased_by = w
                  THEN [rows[i] EXCEPT !.leased_until = now + LeaseSeconds]
                  ELSE rows[i]]
    /\ UNCHANGED <<waiter, call, exe, doc, registry, ptasks, sync, now, prod, held, rec, adm, paused, last, dedup, aging, wfr, periodic, beat>>

\* The finalizer's ownership test, without it.
OwnsAlways(t, w, i) == TRUE

\* The finalizer's ownership test: the row is still RUNNING and leased by w.
Owns(t, w, i) == t[i].status = "RUNNING" /\ t[i].leased_by = w

\* Row j is a child of row i or of one of its descendants.
RECURSIVE DescendantOf(_, _, _)
DescendantOf(t, i, j) ==
    /\ t[j].parent_id # 0
    /\ (t[j].parent_id = i \/ DescendantOf(t, i, t[j].parent_id))

\* The direct children of row i.
ChildOf(t, i, j) == t[j].parent_id = i

\* Chain: the children of the finalized row i. A successful parent decrements
\* wait_count and releases the child at 0; a failed parent fails the child.
CoordinateChain(t, i) ==
    [j \in DOMAIN t |->
        IF ChildOf(t, i, j) /\ t[j].status = "WAITING"
        THEN IF t[i].status = "SUCCESSFUL"
             THEN [t[j] EXCEPT !.wait_count = @ - 1,
                               !.status = IF t[j].wait_count - 1 = 0
                                          THEN "READY" ELSE "WAITING"]
             ELSE [t[j] EXCEPT !.status = "FAILED",
                               !.errors = Append(@, "parent_failed"),
                               !.finished_at = now]
        ELSE t[j]]

\* Chord: the counters of the WorkflowRun row after predecessor i finalized;
\* an UPDATE that finds no row changes nothing.
CountOutcome(t, f, i) ==
    LET k == t[i].workflow_id
    IN  IF f[k] = NoRun \/ f[k].callback_result_id = i THEN f
        ELSE IF t[i].status = "SUCCESSFUL"
        THEN [f EXCEPT ![k].success_count = @ + 1]
        ELSE [f EXCEPT ![k].failure_count = @ + 1]

\* The fan-in test releasing the callback one finalization early.
CompleteOneEarly(r) == r.success_count + r.failure_count + 1 >= r.expected_count

\* success_count + failure_count = expected_count
Complete(r) == r.success_count + r.failure_count = r.expected_count

\* Chord: the callback once the counters are complete.
CoordinateChord(t, f, i) ==
    LET k == t[i].workflow_id
        c == f[k].callback_result_id
    IN  IF f[k] = NoRun \/ c = i \/ ~Complete(f[k]) \/ t[c].status # "WAITING"
        THEN t
        ELSE IF f[k].failure_count = 0
        THEN [t EXCEPT ![c] = [@ EXCEPT !.wait_count = 0, !.status = "READY"]]
        ELSE [t EXCEPT ![c] = [@ EXCEPT !.status = "FAILED",
                                        !.errors = Append(@, "chord_partial_failure"),
                                        !.finished_at = now]]

\* The hand-off of the finalizer: table and WorkflowRun rows after row i of
\* table t has reached a terminal status.
HandOff(t, f, i) ==
    IF t[i].workflow_id = 0 \/ ~Terminal(t[i])
    THEN [rows |-> t, wfr |-> f]
    ELSE LET g == CountOutcome(t, f, i)
         IN  [rows |-> CoordinateChord(CoordinateChain(t, i), g, i), wfr |-> g]

ClearLease(r) == [r EXCEPT !.leased_until = NULL, !.leased_by = 0]

\* The finalizer's transaction on row i held by worker w: the row becomes r
\* and is handed off to the workflow coordinator; nothing changes when the
\* worker no longer owns the row.
Finalized(w, i, r) ==
    LET h == IF Owns(rows, w, i)
             THEN HandOff([rows EXCEPT ![i] = r], wfr, i)
             ELSE [rows |-> rows, wfr |-> wfr]
    IN  /\ rows' = h.rows
        /\ wfr' = h.wfr
        /\ held' = [held EXCEPT ![w] = 0]
        /\ UNCHANGED <<waiter, call, exe, doc, registry, ptasks, sync, now, prod, rec, adm, paused, last, dedup, aging, periodic, beat>>

\* Outcome ok.
FinalizeOk(w) ==
    /\ held[w] # 0
    /\ Finalized(w, held[w],
           ClearLease([rows[held[w]] EXCEPT !.status = "SUCCESSFUL",
                                            !.has_return = TRUE,
                                            !.finished_at = now]))

\* The retry test allowing one attempt too many.
MayRetryOffByOne(r) == r.attempts <= r.max_attempts

\* failed and attempts < max_attempts: the row is retried.
MayRetry(r) == r.attempts < r.max_attempts

\* Outcome failed: retry while attempts < max_attempts, FAILED otherwise.
FinalizeFailed(w) ==
    /\ held[w] # 0
    /\ LET r == rows[held[w]]
       IN  Finalized(w, held[w],
               IF MayRetry(r)
               THEN ClearLease([r EXCEPT !.status = "READY",
                                         !.errors = Append(@, "failed"),
                                         !.run_after = now + BackoffSeconds])
               ELSE ClearLease([r EXCEPT !.status = "FAILED",
                                         !.errors = Append(@, "failed"),
                                         !.finished_at = now]))

\* Outcome cancelled: the worker has observed cancel_requested.
FinalizeCancelled(w) ==
    /\ held[w] # 0
    /\ rows[held[w]].cancel_requested
    /\ Finalized(w, held[w],
           ClearLease([rows[held[w]] EXCEPT !.status = "CANCELLED",
                                            !.errors = Append(@, "cancelled"),
                                            !.finished_at = now]))

Worker(w) ==
    \/ Claim(w)
    \/ Heartbeat(w)
    \/ FinalizeOk(w)
    \/ FinalizeFailed(w)
    \/ FinalizeCancelled(w)

\* ------------------------------------------------------------- reclaim
\* The selection without its cancel_requested condition.
ExpiredCancelledToo(t, i, cutoff, incl) ==
    /\ t[i].status = "RUNNING"
    /\ \/ (t[i].leased_until # NULL /\ t[i].leased_until < cutoff)
       \/ (incl /\ t[i].leased_until = NULL)

\* status = RUNNING, cancel_requested = FALSE, and the lease filter.
Expired(t, i, cutoff, incl) ==
    /\ t[i].status = "RUNNING"
    /\ ~t[i].cancel_requested
    /\ \/ (t[i].leased_until # NULL /\ t[i].leased_until < cutoff)
       \/ (incl /\ t[i].leased_until = NULL)

ExpiredIds(t, cutoff, incl) == {i \in DOMAIN t : Expired(t, i, cutoff, incl)}

\* ORDER BY leased_until, result_id (NULLs last): i comes before j.
LeaseBefore(t, i, j) ==
    \/ (t[i].leased_until # NULL /\ t[j].leased_until = NULL)
    \/ /\ (t[i].leased_until = NULL) = (t[j].leased_until = NULL)
       /\ \/ t[i].leased_until < t[j].leased_until
          \/ (t[i].leased_until = t[j].leased_until /\ i < j)

\* The first n ids of S in that order.
FirstN(t, S, n) ==
    {i \in S : Cardinality({j \in S : LeaseBefore(t, j, i)}) < n}

\* The ids of a set in ascending order.
RECURSIVE SortedSeq(_)
SortedSeq(S) ==
    IF S = {} THEN <<>>
    ELSE LET m == CHOOSE x \in S : \A y \in S : x <= y
         IN  <<m>> \o SortedSeq(S \ {m})

\* The rows the queryset of the running reclaim denotes, evaluated on t.
RecTarget(t) ==
    IF rec.limited THEN rec.ids ELSE ExpiredIds(t, rec.cutoff, rec.incl)

\* run_reclaim up to the count: the id SELECT of --limit and the COUNT.
ReclaimStart(action, limit, older, incl, dry) ==
    /\ rec.pc = "idle"
    /\ LET cutoff == now - older
           ids == IF limit > 0
                  THEN FirstN(rows, ExpiredIds(rows, cutoff, incl), limit)
                  ELSE {}
           count == IF limit > 0 THEN Cardinality(ids)
                    ELSE Cardinality(ExpiredIds(rows, cutoff, incl))
       IN  rec' = IF dry THEN [IdleRec EXCEPT !.dry = TRUE]
                  ELSE IF count = 0 THEN IdleRec
                  ELSE [IdleRec EXCEPT !.pc = IF action = "requeue" THEN "update" ELSE "fetch",
                                       !.at = now, !.cutoff = cutoff, !.incl = incl,
                                       !.ids = ids, !.limited = (limit > 0),
                                       !.limit = limit, !.seen = rows]
    /\ UNCHANGED <<waiter, call, exe, doc, registry, ptasks, sync, rows, now, prod, held, adm, paused, last, dedup, aging, wfr, periodic, beat>>

\* The UPDATE of action=requeue, on one row.
RequeueRow(r, at) ==
    [r EXCEPT !.status = "READY", !.run_after = at, !.leased_until = NULL,
              !.leased_by = 0, !.started_at = NULL, !.finished_at = NULL]

\* queryset.update(status="READY", ...): one statement.
ReclaimRequeue ==
    /\ rec.pc = "update"
    /\ LET S == RecTarget(rows)
           t == [i \in Ids |-> IF i \in S THEN RequeueRow(rows[i], rec.at) ELSE rows[i]]
       IN  rows' = IF UniqueOk(t) THEN t ELSE rows
    /\ rec' = IdleRec
    /\ UNCHANGED <<waiter, call, exe, doc, registry, ptasks, sync, now, prod, held, adm, paused, last, dedup, aging, wfr, periodic, beat>>

\* for run in queryset: the SELECT that loads the rows.
ReclaimFetch ==
    /\ rec.pc = "fetch"
    /\ LET S == SortedSeq(RecTarget(rows))
       IN  rec' = IF S = <<>> THEN IdleRec
                  ELSE [rec EXCEPT !.pc = "save",
                                   !.snap = [k \in DOMAIN S |->
                                               [id |-> S[k], errors |-> rows[S[k]].errors]]]
    /\ UNCHANGED <<waiter, call, exe, doc, registry, ptasks, sync, rows, now, prod, held, adm, paused, last, dedup, aging, wfr, periodic, beat>>

\* run.save(update_fields=[...]) of action=fail, on the next loaded row.
ReclaimSave ==
    /\ rec.pc = "save"
    /\ LET e == Head(rec.snap)
       IN  rows' = [rows EXCEPT ![e.id] =
                      [@ EXCEPT !.status = "FAILED", !.finished_at = rec.at,
                                !.last_attempted_at = rec.at, !.leased_until = NULL,
                                !.leased_by = 0,
                                !.errors = Append(e.errors, "reclaim")]]
    /\ rec' = IF Len(rec.snap) = 1 THEN IdleRec ELSE [rec EXCEPT !.snap = Tail(@)]
    /\ UNCHANGED <<waiter, call, exe, doc, registry, ptasks, sync, now, prod, held, adm, paused, last, dedup, aging, wfr, periodic, beat>>

\* One invocation of the command with --older-than, --include-null-lease, --dry-run.
ReclaimRun(older, incl, dry) ==
    \E action \in {"requeue", "fail"} : \E limit \in 0..MaxLimitOpt :
       ReclaimStart(action, limit, older, incl, dry)

Reclaim ==
    \/ \E older \in 0..MaxOlderThan : \E incl \in BOOLEAN : \E dry \in BOOLEAN :
          ReclaimRun(older, incl, dry)
    \/ ReclaimRequeue
    \/ ReclaimFetch
    \/ ReclaimSave

\* ------------------------------------------------------------- operator
\* reproq cancel --id i: sets the flag unless it is set already.
RunCancel(i) ==
    /\ i \in Ids
    /\ rows' = [rows EXCEPT ![i].cancel_requested = TRUE]
    /\ UNCHANGED <<waiter, call, exe, doc, registry, ptasks, sync, now, prod, held, rec, adm, paused, last, dedup, aging, wfr, periodic, beat>>

\* TaskRunAdmin.retry_failed_tasks on the selection S: one UPDATE.
AdminRetryFailed(S) ==
    /\ S \subseteq Ids
    /\ \E i \in S : rows[i].status = "FAILED"
    /\ LET t == [i \in Ids |->
                   IF i \in S /\ rows[i].status = "FAILED"
                   THEN [rows[i] EXCEPT !.status = "READY", !.run_after = now]
                   ELSE rows[i]]
       IN  rows' = IF UniqueOk(t) THEN t ELSE rows
    /\ UNCHANGED <<waiter, call, exe, doc, registry, ptasks, sync, now, prod, held, rec, adm, paused, last, dedup, aging, wfr, periodic, beat>>

\* TaskRunAdmin.cancel_tasks, first UPDATE: cancel_requested on READY and RUNNING.
AdminCancelRequest(S) ==
    /\ adm.pc = "idle"
    /\ S \subseteq Ids
    /\ S # {}
    /\ rows' = [i \in Ids |->
                  IF i \in S /\ InFlight(rows[i])
                  THEN [rows[i] EXCEPT !.cancel_requested = TRUE]
                  ELSE rows[i]]
    /\ adm' = [pc |-> "cancel", sel |-> S]
    /\ UNCHANGED <<waiter, call, exe, doc, registry, ptasks, sync, now, prod, held, rec, paused, last, dedup, aging, wfr, periodic, beat>>

\* TaskRunAdmin.cancel_tasks, second UPDATE: READY rows become CANCELLED.
AdminCancelReady ==
    /\ adm.pc = "cancel"
    /\ rows' = [i \in Ids |->
                  IF i \in adm.sel /\ rows[i].status = "READY"
                  THEN [rows[i] EXCEPT !.status = "CANCELLED"]
                  ELSE rows[i]]
    /\ adm' = IdleAdm
    /\ UNCHANGED <<waiter, call, exe, doc, registry, ptasks, sync, now, prod, held, rec, paused, last, dedup, aging, wfr, periodic, beat>>

\* The row TaskRunAdmin.replay_tasks creates from old_run.
ReplayRow(old) ==
    [ spec_hash |-> old.spec_hash,
      queue_name |-> old.queue_name,
      priority |-> old.priority,
      status |-> "READY",
      attempts |-> 0,
      max_attempts |-> old.max_attempts,
      lock_key |-> NoKey,
      concurrency_key |-> NoKey,
      concurrency_limit |-> 0,
      run_after |-> NULL,
      enqueued_at |-> now,
      started_at |-> NULL,
      last_attempted_at |-> NULL,
      finished_at |-> NULL,
      leased_until |-> NULL,
      leased_by |-> 0,
      cancel_requested |-> FALSE,
      errors |-> <<>>,
      has_return |-> FALSE,
      parent_id |-> 0,
      workflow_id |-> 0,
      wait_count |-> 0,
      spec_json |-> old.spec_json ]

\* TaskRunAdmin.replay_tasks on row i: the create raises IntegrityError when
\* the fingerprint is in flight.
AdminReplay(i) ==
    /\ i \in Ids
    /\ LET t == Append(rows, ReplayRow(rows[i]))
       IN  /\ UniqueOk(t)
           /\ Len(rows) < MaxRows
           /\ rows' = t
    /\ UNCHANGED <<waiter, call, exe, doc, registry, ptasks, sync, now, prod, held, rec, adm, paused, last, dedup, aging, wfr, periodic, beat>>

Admin ==
    \/ \E S \in SUBSET (1..MaxRows) : AdminRetryFailed(S)
    \/ \E S \in SUBSET (1..MaxRows) : AdminCancelRequest(S)
    \/ AdminCancelReady
    \/ \E i \in 1..MaxRows : AdminReplay(i)

Next ==
    \/ Tick
    \/ \E p \in Producers : Enqueue(p)
    \/ \E p \in Producers : Bulk(p)
    \/ \E w \in Workers : Worker(w)
    \/ Reclaim
    \/ Admin
    \/ \E i \in 1..MaxRows : RunCancel(i)

Spec == Init /\ [][Next]_vars

\* ------------------------------------------------------------- the producer path
\* A row enqueued and claimed at time 0 by a worker that has died since.
Orphan(h) ==
    [NewRow(h) EXCEPT !.status = "RUNNING", !.attempts = 1, !.enqueued_at = 0,
                      !.started_at = 0, !.last_attempted_at = 0,
                      !.leased_until = LeaseSeconds, !.leased_by = NumWorkers]

\* The clock stands at MaxTime; the table is empty or holds an orphaned row.
InitProducer ==
    /\ now = MaxTime
    /\ rows \in {<<>>} \cup {<<Orphan(h)>> : h \in MainSpecs}
    /\ prod = [p \in Producers |-> IdleProd]
    /\ held = [w \in Workers |-> 0]
    /\ rec = IdleRec
    /\ adm = IdleAdm
    /\ paused = {}
    /\ last = NoCall
    /\ dedup \in BOOLEAN
    /\ aging = 0
    /\ wfr = [k \in Producers |-> NoRun]
    /\ periodic = HourlyTask
    /\ beat = [s \in Schedulers |-> IdleBeat]
    /\ call = IdleCall
    /\ exe = IdleExe
    /\ doc = IdleDoc
    /\ registry = NoRegistry
    /\ ptasks = NoPeriodic
    /\ sync = IdleSync
    /\ waiter = IdleWait

\* Producers (every one enqueues, the last one also in bulk) against one worker
\* that succeeds, the reclaim command and the admin actions that create in-flight rows.
NextProducer ==
    \/ \E p \in Producers : Enqueue(p)
    \/ Bulk(NumProducers)
    \/ Claim(1)
    \/ FinalizeOk(1)
    \/ Reclaim
    \/ \E i \in 1..MaxRows : AdminRetryFailed({i})
    \/ \E i \in 1..MaxRows : AdminReplay(i)

SpecProducer == InitProducer /\ [][NextProducer]_vars

\* The routing columns of row r against the fields of its spec_json.
ColumnsMatch(r) ==
    /\ r.queue_name = r.spec_json.queue_name
    /\ r.priority = r.spec_json.priority
    /\ r.lock_key = r.spec_json.lock_key
    /\ r.concurrency_key = r.spec_json.concurrency_key
    /\ r.concurrency_limit = r.spec_json.concurrency_limit
    /\ r.max_attempts = r.spec_json.max_attempts

\* C39: the routing columns of every row equal the fields of its spec_json,
\* whichever of enqueue, bulk_enqueue, the workflow builders and the admin
\* replay created it.
ColumnsMatchSpecJson == \A i \in Ids : ColumnsMatch(rows[i])

\* C38: with deduplication off, every enqueue of a call that passes validation
\* and the priority bounds inserts a new READY row and returns its id, whatever
\* rows of the same fingerprint are READY or RUNNING.
EnqueueWithoutDedupInserts ==
    [][ (~dedup /\ last' # last /\ last'.op = "enqueue" /\ Accepts(last'.h)
            /\ SmallintOk(NewRow(last'.h)) /\ PriorityCheckOk(NewRow(last'.h))) =>
          /\ last'.res = Len(rows) + 1
          /\ last'.created
          /\ Len(rows') = Len(rows) + 1
          /\ \A i \in Ids : rows'[i] = rows[i]
          /\ rows'[Len(rows')].status = "READY"
          /\ rows'[Len(rows')].spec_hash = last'.h ]_vars

\* ------------------------------------------------------------- the lease path
\* One row, enqueued at time 0; the clock runs.
InitLease ==
    /\ now = 0
    /\ rows \in {<<NewRow(h)>> : h \in MainSpecs}
    /\ prod = [p \in Producers |-> IdleProd]
    /\ held = [w \in Workers |-> 0]
    /\ rec = IdleRec
    /\ adm = IdleAdm
    /\ paused = {}
    /\ last = NoCall
    /\ dedup = TRUE
    /\ aging = 0
    /\ wfr = [k \in Producers |-> NoRun]
    /\ periodic = HourlyTask
    /\ beat = [s \in Schedulers |-> IdleBeat]
    /\ call = IdleCall
    /\ exe = IdleExe
    /\ doc = IdleDoc
    /\ registry = NoRegistry
    /\ ptasks = NoPeriodic
    /\ sync = IdleSync
    /\ waiter = IdleWait

\* Workers, the reclaim command, the cancel command and the admin actions on
\* existing rows.
NextLease ==
    \/ Tick
    \/ \E w \in Workers : Worker(w)
    \/ Reclaim
    \/ \E S \in SUBSET (1..MaxRows) : AdminRetryFailed(S)
    \/ \E S \in SUBSET (1..MaxRows) : AdminCancelRequest(S)
    \/ AdminCancelReady
    \/ \E i \in 1..MaxRows : RunCancel(i)

SpecLease == InitLease /\ [][NextLease]_vars

\* ------------------------------------------------------------- the claim path
\* The tables of up to MaxRows rows with different fingerprints, enqueued at time 0.
FreshTables ==
    UNION {{t \in [1..n -> {NewRow(h) : h \in TaskSpecs}] :
              \A i, j \in 1..n : i # j => t[i].spec_hash # t[j].spec_hash} : n \in 1..MaxRows}

InitClaim ==
    /\ now = 0
    /\ rows \in FreshTables
    /\ prod = [p \in Producers |-> IdleProd]
    /\ held = [w \in Workers |-> 0]
    /\ rec = IdleRec
    /\ adm = IdleAdm
    /\ paused = {}
    /\ last = NoCall
    /\ dedup = TRUE
    /\ aging = 0
    /\ wfr = [k \in Producers |-> NoRun]
    /\ periodic = HourlyTask
    /\ beat = [s \in Schedulers |-> IdleBeat]
    /\ call = IdleCall
    /\ exe = IdleExe
    /\ doc = IdleDoc
    /\ registry = NoRegistry
    /\ ptasks = NoPeriodic
    /\ sync = IdleSync
    /\ waiter = IdleWait

\* Workers claim and finalize; nothing else runs.
NextClaim ==
    \/ \E w \in Workers : Claim(w)
    \/ \E w \in Workers : FinalizeOk(w)
    \/ \E w \in Workers : FinalizeFailed(w)

SpecClaim == InitClaim /\ [][NextClaim]_vars

\* ------------------------------------------------------------- properties
\* C1: in every reachable state, for every fingerprint h, at most one row with
\* spec_hash = h is READY or RUNNING, however enqueue, bulk_enqueue, claims,
\* finalizations, reclaim runs and the admin actions interleave.
UniqueInFlight ==
    \A i \in Ids : \A j \in Ids :
        (i # j /\ rows[i].spec_hash = rows[j].spec_hash)
            => ~(rows[i].status \in {"READY", "RUNNING"} /\ rows[j].status \in {"READY", "RUNNING"})

\* A producer's insert has been refused by the index, and a row with its
\* fingerprint is in flight next to a finished one.
InsertRefused ==
    \E p \in Producers :
        /\ prod[p].pc = "reselect"
        /\ \E i \in Ids : rows[i].spec_hash = prod[p].h /\ InFlight(rows[i])
        /\ \E i \in Ids : rows[i].spec_hash = prod[p].h /\ Terminal(rows[i])

\* C2 (as stated): with dedup enabled, an enqueue of h made while the row the
\* previous enqueue of h returned is still READY or RUNNING returns the same
\* result_id, and exactly one row with that fingerprint exists afterwards.
SameIdOneRow ==
    [][\A p \in Producers : \A h \in MainSpecs :
         ( /\ dedup
           /\ last.op = "enqueue" /\ last.h = h /\ last.res \in Ids
           /\ rows[last.res].status \in {"READY", "RUNNING"}
           /\ EnqueueCall(p, h) )
         => /\ prod'[p].pc = "idle"
            /\ last'.res = last.res
            /\ Cardinality({i \in 1..Len(rows') : rows'[i].spec_hash = h}) = 1]_vars

\* C2 (amended): ... returns the same result_id, inserts no row, and exactly
\* one READY or RUNNING row with that fingerprint exists afterwards.
SameIdOneInFlight ==
    [][\A p \in Producers : \A h \in MainSpecs :
         ( /\ dedup
           /\ last.op = "enqueue" /\ last.h = h /\ last.res \in Ids
           /\ rows[last.res].status \in {"READY", "RUNNING"}
           /\ EnqueueCall(p, h) )
         => /\ prod'[p].pc = "idle"
            /\ last'.res = last.res
            /\ rows' = rows
            /\ Cardinality({i \in 1..Len(rows') :
                              /\ rows'[i].spec_hash = h
                              /\ rows'[i].status \in {"READY", "RUNNING"}}) = 1]_vars

\* An enqueue has returned a row it found, in flight, while a finished row with
\* the same fingerprint is in the table.
FoundNextToFinished ==
    /\ dedup
    /\ last.op = "enqueue" /\ ~last.created /\ last.res \in Ids
    /\ InFlight(rows[last.res])
    /\ \E i \in Ids : rows[i].spec_hash = last.h /\ Terminal(rows[i])

\* C3: a row whose status is SUCCESSFUL, FAILED or CANCELLED never changes
\* status again.
TerminalStays ==
    [][\A i \in Ids :
         rows[i].status \in {"SUCCESSFUL", "FAILED", "CANCELLED"}
            => rows'[i].status = rows[i].status]_vars

\* C4: for every row, in every reachable state, attempts <= max_attempts.
AttemptsBounded == \A i \in Ids : rows[i].attempts <= rows[i].max_attempts

\* C5: a claim succeeds on a READY row only, hands it to exactly one worker,
\* sets leased_by to that worker, and every READY-to-RUNNING transition adds
\* exactly one to attempts.
ClaimExclusive ==
    [][/\ \A w \in Workers :
            (held'[w] # held[w] /\ held'[w] # 0)
               => /\ rows[held'[w]].status = "READY"
                  /\ rows'[held'[w]].status = "RUNNING"
                  /\ rows'[held'[w]].leased_by = w
                  /\ \A v \in Workers \ {w} : held'[v] = held[v] /\ held[v] # held'[w]
       /\ \A i \in Ids :
            (rows[i].status = "READY" /\ rows'[i].status = "RUNNING")
               => /\ rows'[i].attempts = rows[i].attempts + 1
                  /\ \E w \in Workers : held[w] = 0 /\ held'[w] = i]_vars

\* A row in its second attempt is held by one worker while another is idle.
ClaimedAgain ==
    \E w \in Workers : \E v \in Workers :
        /\ held[w] # 0 /\ held[v] = 0
        /\ rows[held[w]].status = "RUNNING"
        /\ rows[held[w]].leased_by = w
        /\ rows[held[w]].attempts = 2

\* C6: in every reachable state at most one row with a given non-null
\* lock_key is RUNNING.
LockExclusive ==
    \A i \in Ids : \A j \in Ids :
        (i # j /\ rows[i].status = "RUNNING" /\ rows[j].status = "RUNNING"
              /\ rows[i].lock_key # NoKey)
            => rows[i].lock_key # rows[j].lock_key

\* One row of a lock_key is RUNNING, the other is READY, and an idle worker
\* finds nothing to claim.
LockBlocks ==
    \E i \in Ids : \E j \in Ids : \E w \in Workers :
        /\ i # j /\ rows[i].lock_key # NoKey /\ rows[i].lock_key = rows[j].lock_key
        /\ rows[i].status = "RUNNING" /\ rows[j].status = "READY"
        /\ held[w] = 0 /\ Candidates(rows, w) = {}
\* C7 (as stated): for every concurrency_key whose rows carry limit L > 0 at
\* most L rows with the key are RUNNING; the concurrency gate never blocks a
\* row with concurrency_limit = 0, nor a row enqueued with a negative or a
\* non-integer limit (stored as 0).
LimitHeldNonIntegerZero ==
    /\ \A i \in Ids :
          (rows[i].status = "RUNNING" /\ rows[i].concurrency_key # NoKey
              /\ rows[i].concurrency_limit > 0)
            => Cardinality({j \in Ids : /\ rows[j].status = "RUNNING"
                                        /\ rows[j].concurrency_key = rows[i].concurrency_key})
                 <= rows[i].concurrency_limit
    /\ \A i \in Ids :
          LET raw == SpecRawLimit(rows[i].spec_hash)
          IN  ( /\ rows[i].status = "READY"
                /\ \/ (raw.k = "int" /\ raw.v < 0)
                   \/ raw.k = "bad"
                   \/ (raw.k = "float" /\ raw.v % 2 # 0) )
                 => ConcFree(rows, i)
    /\ \A i \in Ids :
          (rows[i].status = "READY" /\ rows[i].concurrency_limit = 0) => ConcFree(rows, i)

\* C7 (amended): ... a row enqueued with a negative limit, or with one int()
\* cannot convert, stores concurrency_limit = 0; a fractional limit is stored
\* truncated toward zero; the gate never blocks a row with concurrency_limit = 0.
LimitHeldTruncated ==
    /\ \A i \in Ids :
          (rows[i].status = "RUNNING" /\ rows[i].concurrency_key # NoKey
              /\ rows[i].concurrency_limit > 0)
            => Cardinality({j \in Ids : /\ rows[j].status = "RUNNING"
                                        /\ rows[j].concurrency_key = rows[i].concurrency_key})
                 <= rows[i].concurrency_limit
    /\ \A i \in Ids :
          LET raw == SpecRawLimit(rows[i].spec_hash)
          IN  /\ ((raw.k = "int" /\ raw.v < 0) \/ raw.k = "bad")
                    => /\ rows[i].concurrency_limit = 0
                       /\ rows[i].status = "READY" => ConcFree(rows, i)
              /\ (raw.k = "float" /\ raw.v > 0)
                    => /\ 2 * rows[i].concurrency_limit <= raw.v
                       /\ raw.v < 2 * (rows[i].concurrency_limit + 1)
    /\ \A i \in Ids :
          (rows[i].status = "READY" /\ rows[i].concurrency_limit = 0) => ConcFree(rows, i)

\* Two rows of one key, enqueued with an unconvertible and with a negative
\* limit, are RUNNING together.
UnlimitedRunTogether ==
    \E i \in Ids : \E j \in Ids :
        /\ i # j /\ rows[i].concurrency_key = rows[j].concurrency_key
        /\ rows[i].concurrency_key # NoKey
        /\ SpecRawLimit(rows[i].spec_hash).k = "bad"
        /\ SpecRawLimit(rows[j].spec_hash).v < 0
        /\ rows[i].status = "RUNNING" /\ rows[j].status = "RUNNING"

\* C8: every RUNNING row, whatever its cancel_requested flag, holds an
\* unexpired lease or is selected by the reclaim run of the next interval.
RunningCovered ==
    \A i \in Ids :
        rows[i].status = "RUNNING"
            => \/ rows[i].leased_until > now
               \/ i \in ExpiredIds(rows, now + 1, FALSE)

\* C9: a finalize by a worker that no longer owns the row it executed (the
\* row has left RUNNING or is leased by another worker) leaves the table unchanged.
StaleFinalizeAbandons ==
    [][\A w \in Workers :
         ( /\ held[w] # 0 /\ held'[w] = 0
           /\ ~(rows[held[w]].status = "RUNNING" /\ rows[held[w]].leased_by = w) )
         => rows' = rows]_vars

\* The row a worker still executes has been reclaimed and claimed by another worker.
TwoHolders ==
    \E w \in Workers : \E v \in Workers :
        /\ w # v /\ held[w] # 0 /\ held[v] = held[w]
        /\ rows[held[w]].status = "RUNNING"
        /\ rows[held[w]].leased_by = v

\* C10: reclaim with action=requeue leaves a RUNNING row with cancel_requested
\* = FALSE, an expired lease and attempts < max_attempts READY with run_after =
\* now, the lease, started_at and finished_at cleared, attempts unchanged, and
\* errors extended by one record of kind lease_expired.
RequeueAppendsError ==
    [][\A i \in Ids :
         ( /\ rec.pc = "update" /\ rec'.pc = "idle"
           /\ i \in RecTarget(rows)
           /\ rows[i].status = "RUNNING" /\ ~rows[i].cancel_requested
           /\ rows[i].leased_until # NULL /\ rows[i].leased_until < rec.cutoff
           /\ rows[i].attempts < rows[i].max_attempts )
         => /\ rows'[i].status = "READY"
            /\ rows'[i].run_after = rec.at
            /\ rows'[i].leased_until = NULL
            /\ rows'[i].leased_by = 0
            /\ rows'[i].started_at = NULL
            /\ rows'[i].finished_at = NULL
            /\ rows'[i].attempts = rows[i].attempts
            /\ rows'[i].errors = Append(rows[i].errors, "lease_expired")]_vars

\* C11: a reclaim run, whatever its action, never puts back to READY an
\* expired-lease row whose attempts >= max_attempts: it sets the row FAILED
\* with finished_at = last_attempted_at = now and appends one error record.
ExhaustedRowFails ==
    [][\A i \in Ids :
         ( /\ \/ (rec.pc = "update" /\ rec'.pc = "idle" /\ i \in RecTarget(rows))
              \/ (rec.pc = "save" /\ rec' # rec /\ Head(rec.snap).id = i)
           /\ rows[i].status = "RUNNING" /\ ~rows[i].cancel_requested
           /\ rows[i].leased_until # NULL /\ rows[i].leased_until < rec.cutoff
           /\ rows[i].attempts >= rows[i].max_attempts )
         => /\ rows'[i].status = "FAILED"
            /\ rows'[i].finished_at = rec.at
            /\ rows'[i].last_attempted_at = rec.at
            /\ Len(rows'[i].errors) = Len(rows[i].errors) + 1]_vars

\* ---------------------------------------------------------------------
\* The claim predicate over queues, pauses and scheduled times.

QueueNames == {"default", "other"}

\* The row enqueue(queue_name = q, run_after = ra) inserts.
ScheduledRow(h, q, ra) ==
    [NewRow(h) EXCEPT !.queue_name = q, !.run_after = ra]

\* QueueControl.paused of queue q is set / cleared.
PauseQueue(q) ==
    /\ q \notin paused
    /\ paused' = paused \cup {q}
    /\ UNCHANGED <<waiter, call, exe, doc, registry, ptasks, sync, rows, now, prod, held, rec, adm, last, dedup, aging, wfr, periodic, beat>>

ResumeQueue(q) ==
    /\ q \in paused
    /\ paused' = paused \ {q}
    /\ UNCHANGED <<waiter, call, exe, doc, registry, ptasks, sync, rows, now, prod, held, rec, adm, last, dedup, aging, wfr, periodic, beat>>

InitGate ==
    /\ now = 0
    /\ rows \in {<<ScheduledRow(NumMainSpecs + 1, q1, ra1),
                   ScheduledRow(NumMainSpecs + 2, q2, ra2)>> :
                    <<q1, ra1, q2, ra2>> \in
                        QueueNames \X ({NULL} \cup (0..MaxTime)) \X
                        QueueNames \X ({NULL} \cup (0..MaxTime))}
    /\ prod = [p \in Producers |-> IdleProd]
    /\ held = [w \in Workers |-> 0]
    /\ rec = IdleRec
    /\ adm = IdleAdm
    /\ paused = {}
    /\ last = NoCall
    /\ dedup = TRUE
    /\ aging = 0
    /\ wfr = [k \in Producers |-> NoRun]
    /\ periodic = HourlyTask
    /\ beat = [s \in Schedulers |-> IdleBeat]
    /\ call = IdleCall
    /\ exe = IdleExe
    /\ doc = IdleDoc
    /\ registry = NoRegistry
    /\ ptasks = NoPeriodic
    /\ sync = IdleSync
    /\ waiter = IdleWait

NextGate ==
    \/ Tick
    \/ \E w \in Workers : Claim(w)
    \/ \E w \in Workers : FinalizeOk(w)
    \/ \E q \in QueueNames : PauseQueue(q)
    \/ \E q \in QueueNames : ResumeQueue(q)

SpecGate == InitGate /\ [][NextGate]_vars

\* C12: a claim returns only a row that is READY, in one of the claiming
\* worker's queues, in an unpaused queue and with run_after NULL or not later
\* than now; and a READY row of an unpaused subscribed queue whose run_after
\* is NULL or exactly now, with its lock and concurrency key free, is a
\* candidate of the claim.
ClaimHonoursGate ==
    [][ /\ \A w \in Workers :
             (held[w] = 0 /\ held'[w] # 0) =>
                 LET r == rows[held'[w]]
                 IN  /\ r.status = "READY"
                     /\ r.queue_name \in WorkerQueues(w)
                     /\ r.queue_name \notin paused
                     /\ (r.run_after = NULL \/ r.run_after <= now)
                     /\ rows'[held'[w]].status = "RUNNING"
        /\ \A i \in Ids : \A w \in Workers :
             ( /\ rows[i].status = "READY"
               /\ rows[i].queue_name \in WorkerQueues(w)
               /\ rows[i].queue_name \notin paused
               /\ rows[i].run_after \in {NULL, now}
               /\ LockFree(rows, i) /\ ConcFree(rows, i) )
             => i \in Candidates(rows, w) ]_vars

\* A row was claimed at the very instant of its run_after while the other
\* row, READY in a queue no worker subscribes to, was left alone.
ClaimedAtRunAfter ==
    \E i, j \in Ids :
        /\ rows[i].status = "RUNNING"
        /\ rows[i].run_after # NULL
        /\ rows[i].run_after = rows[i].last_attempted_at
        /\ rows[i].run_after > 0
        /\ rows[j].status = "READY"
        /\ rows[j].queue_name \notin WorkerQueues(rows[i].leased_by)
        /\ (rows[j].run_after = NULL \/ rows[j].run_after <= now)

\* ---------------------------------------------------------------------
\* The claim order over priorities, scheduled times and enqueue times.

MaxPriority == 2

\* The row enqueue(priority = pr, run_after = ra) inserted at time ea.
RankedRow(h, pr, ra, ea) ==
    [NewRow(h) EXCEPT !.priority = pr, !.run_after = ra, !.enqueued_at = ea]

RankedRows(h) ==
    {RankedRow(h, pr, ra, ea) :
        <<pr, ra, ea>> \in (0..MaxPriority) \X ({NULL} \cup (0..MaxTime))
                           \X (0..(MaxTime - 1))}

InitOrder ==
    /\ now = MaxTime - 1
    /\ rows \in {<<r1, r2>> : <<r1, r2>> \in
                    RankedRows(NumMainSpecs + 1) \X RankedRows(NumMainSpecs + 2)}
    /\ prod = [p \in Producers |-> IdleProd]
    /\ held = [w \in Workers |-> 0]
    /\ rec = IdleRec
    /\ adm = IdleAdm
    /\ paused = {}
    /\ last = NoCall
    /\ dedup = TRUE
    /\ aging \in {0, AgingFactor}
    /\ wfr = [k \in Producers |-> NoRun]
    /\ periodic = HourlyTask
    /\ beat = [s \in Schedulers |-> IdleBeat]
    /\ call = IdleCall
    /\ exe = IdleExe
    /\ doc = IdleDoc
    /\ registry = NoRegistry
    /\ ptasks = NoPeriodic
    /\ sync = IdleSync
    /\ waiter = IdleWait

NextOrder ==
    \/ Tick
    \/ Claim(1)
    \/ FinalizeFailed(1)

SpecOrder == InitOrder /\ [][NextOrder]_vars

\* Row i precedes row j under keys (p descending, COALESCE(run_after,
\* enqueued_at), enqueued_at, result_id ascending), p being the priority key.
Precedes(i, j, p) ==
    LET ci == Coalesce(rows[i].run_after, rows[i].enqueued_at)
        cj == Coalesce(rows[j].run_after, rows[j].enqueued_at)
        ki == <<0 - p[i], ci, rows[i].enqueued_at, i>>
        kj == <<0 - p[j], cj, rows[j].enqueued_at, j>>
    IN  \E n \in 1..4 : ki[n] < kj[n] /\ \A m \in 1..(n - 1) : ki[m] = kj[m]

\* A claim step of worker w takes the one candidate that precedes every
\* other candidate under priority key p.
TakesFirst(w, p) ==
    (held[w] = 0 /\ held'[w] # 0) =>
        /\ \A j \in Candidates(rows, w) \ {held'[w]} : Precedes(held'[w], j, p)
        /\ Cardinality({i \in Candidates(rows, w) :
               \A j \in Candidates(rows, w) \ {i} : Precedes(i, j, p)}) = 1

\* C13 (as stated): a claim with max_n = 1 returns the eligible row with the
\* highest priority, ties broken by the lowest COALESCE(run_after,
\* enqueued_at), then the lowest enqueued_at, then the lowest result_id.
ClaimTakesHighestPriority ==
    [][\A w \in Workers :
          TakesFirst(w, [i \in Ids |-> rows[i].priority])]_vars

\* C13 (amended): a claim with max_n = 1 returns the eligible row with the
\* highest effective priority, which is the priority itself when no aging
\* factor is configured and priority + floor((now - enqueued_at) /
\* aging_factor) otherwise; ties are broken by the lowest COALESCE(run_after,
\* enqueued_at), then the lowest enqueued_at, then the lowest result_id, and
\* exactly one eligible row is first in that order.
ClaimTakesHighestEffective ==
    [][\A w \in Workers :
          TakesFirst(w, [i \in Ids |-> Effective(rows, i)])]_vars

\* A claim took one of two candidates that tie on priority (aging off) and
\* differ in COALESCE(run_after, enqueued_at): the row that was left has the
\* later time.
TieBrokenByTime ==
    \E i, j \in Ids :
        /\ aging = 0
        /\ rows[i].status = "RUNNING" /\ rows[i].attempts = 1
        /\ rows[j].status = "READY" /\ rows[j].attempts = 0
        /\ rows[i].last_attempted_at = now
        /\ rows[j].run_after # NULL /\ rows[j].run_after <= now
        /\ rows[i].priority = rows[j].priority
        /\ Coalesce(rows[i].run_after, rows[i].enqueued_at) < rows[j].run_after
        /\ rows[i].enqueued_at > rows[j].enqueued_at

\* ---------------------------------------------------------------------
\* enqueue of priorities at the edges of the integer ranges.

InitRange ==
    /\ now = 0
    /\ rows = <<>>
    /\ prod = [p \in Producers |-> IdleProd]
    /\ held = [w \in Workers |-> 0]
    /\ rec = IdleRec
    /\ adm = IdleAdm
    /\ paused = {}
    /\ last = NoCall
    /\ dedup \in BOOLEAN
    /\ aging = 0
    /\ wfr = [k \in Producers |-> NoRun]
    /\ periodic = HourlyTask
    /\ beat = [s \in Schedulers |-> IdleBeat]
    /\ call = IdleCall
    /\ exe = IdleExe
    /\ doc = IdleDoc
    /\ registry = NoRegistry
    /\ ptasks = NoPeriodic
    /\ sync = IdleSync
    /\ waiter = IdleWait

NextRange ==
    \/ \E h \in EdgeSpecs : EnqueueCall(1, h)
    \/ EnqueueInsert(1)
    \/ EnqueueReselect(1)
    \/ EnqueueReinsert(1)
    \/ Claim(1)
    \/ FinalizeOk(1)

SpecRange == InitRange /\ [][NextRange]_vars

\* C14: enqueue accepts every priority of the signed 32-bit range, INT_MIN
\* and INT_MAX included: a call that has returned has inserted or found a
\* row, and that row stores the priority unchanged.
Int32PriorityAccepted ==
    (last.op = "enqueue" /\ SpecPriority(last.h) >= IntMin
                         /\ SpecPriority(last.h) <= IntMax)
        => /\ last.res \in Ids
           /\ rows[last.res].priority = SpecPriority(last.h)

\* ---------------------------------------------------------------------
\* Attempts and retries of workers alone.

\* The row enqueue inserts under the backend option MAX_ATTEMPTS = m.
BoundedRow(h, m) == [NewRow(h) EXCEPT !.max_attempts = m]

InitRetry ==
    /\ now = 0
    /\ rows \in {<<BoundedRow(NumMainSpecs + 1, m1), BoundedRow(NumMainSpecs + 2, m2)>> :
                    <<m1, m2>> \in (1..MaxAttemptsOpt) \X (1..MaxAttemptsOpt)}
    /\ prod = [p \in Producers |-> IdleProd]
    /\ held = [w \in Workers |-> 0]
    /\ rec = IdleRec
    /\ adm = IdleAdm
    /\ paused = {}
    /\ last = NoCall
    /\ dedup = TRUE
    /\ aging = 0
    /\ wfr = [k \in Producers |-> NoRun]
    /\ periodic = HourlyTask
    /\ beat = [s \in Schedulers |-> IdleBeat]
    /\ call = IdleCall
    /\ exe = IdleExe
    /\ doc = IdleDoc
    /\ registry = NoRegistry
    /\ ptasks = NoPeriodic
    /\ sync = IdleSync
    /\ waiter = IdleWait

NextRetry ==
    \/ Tick
    \/ \E w \in Workers : Claim(w)
    \/ \E w \in Workers : FinalizeOk(w)
    \/ \E w \in Workers : FinalizeFailed(w)

SpecRetry == InitRetry /\ [][NextRetry]_vars

MaxChain == 3
MaxPreds == 2

\* spec_hash = uuid.uuid4().hex: a value no other row carries.
FreshHash(t) ==
    NumSpecs + Len(EdgePriorities) + Len(BadInputs) + NumOtherSpecs + Len(t) + 1

\* A task as the workflow builders read it: task.queue_name, task.priority and
\* the attributes lock_key, concurrency_key, concurrency_limit.
PlainTask ==
    [queue_name |-> "default", priority |-> 0, lock_key |-> NoKey,
     concurrency_key |-> NoKey, concurrency_limit |-> 0]

\* The task whose attributes are those of specification h; the builders read
\* concurrency_key as it is and concurrency_limit as `limit or 0`, an integer.
TaskOf(h) ==
    [queue_name |-> SpecQueue(h), priority |-> SpecPriority(h), lock_key |-> SpecLockKey(h),
     concurrency_key |-> SpecRawConcKey(h),
     concurrency_limit |-> IF SpecRawLimit(h).k = "int" THEN SpecRawLimit(h).v ELSE 0]

TaskAlias(task) == DbAlias(task.queue_name)

\* The row of a workflow task, with the parent left out.
WorkflowRowNoParent(t, task, st, pa, k, wc) ==
    [NewRow(FreshHash(t)) EXCEPT !.queue_name = task.queue_name,
                                 !.priority = task.priority,
                                 !.lock_key = task.lock_key,
                                 !.concurrency_key = task.concurrency_key,
                                 !.concurrency_limit = task.concurrency_limit,
                                 !.status = st,
                                 !.workflow_id = k,
                                 !.wait_count = wc,
                                 !.spec_json = SpecJson(task.queue_name, task.priority,
                                     task.lock_key, task.concurrency_key,
                                     task.concurrency_limit, MaxAttemptsOpt)]

\* The row a workflow creates for a task: status st, parent pa, workflow k,
\* wait_count wc; the columns are read from the spec dict.
WorkflowRowOf(t, task, st, pa, k, wc) ==
    LET spec == SpecJson(task.queue_name, task.priority, task.lock_key,
                         task.concurrency_key, task.concurrency_limit, MaxAttemptsOpt)
    IN  [NewRow(FreshHash(t)) EXCEPT !.queue_name = task.queue_name,
                                     !.priority = task.priority,
                                     !.lock_key = spec.lock_key,
                                     !.concurrency_key = spec.concurrency_key,
                                     !.concurrency_limit = spec.concurrency_limit,
                                     !.max_attempts = spec.max_attempts,
                                     !.status = st,
                                     !.parent_id = pa,
                                     !.workflow_id = k,
                                     !.wait_count = wc,
                                     !.spec_json = spec]

\* The row a workflow creates for a task without attributes.
WorkflowRow(t, st, pa, k, wc) == WorkflowRowOf(t, PlainTask, st, pa, k, wc)

\* A workflow call of producer p returns the ids in out.
WorkflowReturn(p, c) ==
    Return(p, [NoCall EXCEPT !.p = p, !.op = c.op, !.out = c.out])

\* A builder call of producer p raises ValueError.
WorkflowRaise(p, c) ==
    Return(p, [NoCall EXCEPT !.p = p, !.op = c.op, !.res = -1, !.out = c.out])

\* The alias test of the builders' loops on the k-th task of the call: the
\* first task sets db_alias, a later one with another alias raises.
AliasOk(c, k) == TaskAlias(c.batch[k]) = TaskAlias(c.batch[1])

\* One pass of the loop of Chain.enqueue in producer state c.
ChainStep(p, c) ==
    LET first == c.out = <<>>
        r == WorkflowRowOf(rows, c.batch[Len(c.out) + 1],
                           IF first THEN "READY" ELSE "WAITING",
                           IF first THEN 0 ELSE c.out[Len(c.out)], p,
                           IF first THEN 0 ELSE 1)
        d == [c EXCEPT !.out = Append(@, Len(rows) + 1)]
    IN  /\ IF AliasOk(c, Len(c.out) + 1)
           THEN /\ rows' = Append(rows, r)
                /\ IF Len(d.out) = d.n THEN WorkflowReturn(p, d) ELSE Continue(p, d)
           ELSE /\ rows' = rows
                /\ WorkflowRaise(p, c)
        /\ UNCHANGED <<waiter, call, exe, doc, registry, ptasks, sync, now, held, rec, adm, paused, dedup, aging, wfr, periodic, beat>>

\* Chain(*tasks).enqueue(): the call and its first INSERT.
ChainCallOf(p, tasks) ==
    /\ prod[p].pc = "idle"
    /\ tasks # <<>>
    /\ \A i \in Ids : rows[i].workflow_id # p
    /\ ChainStep(p, [IdleProd EXCEPT !.pc = "chain", !.op = "chain", !.n = Len(tasks),
                                     !.batch = tasks])

\* Chain(t1 .. tn).enqueue() of n tasks without attributes.
ChainCall(p, n) == ChainCallOf(p, [k \in 1..n |-> PlainTask])

\* The INSERT of the next task of the chain.
ChainInsert(p) ==
    /\ prod[p].pc = "chain"
    /\ ChainStep(p, prod[p])

\* One pass of the loop of Group.enqueue: every row READY, without parent.
GroupStep(p, c) ==
    LET r == WorkflowRowOf(rows, c.batch[Len(c.out) + 1], "READY", 0, p, 0)
        d == [c EXCEPT !.out = Append(@, Len(rows) + 1)]
    IN  /\ IF AliasOk(c, Len(c.out) + 1)
           THEN /\ rows' = Append(rows, r)
                /\ IF Len(d.out) = d.n THEN WorkflowReturn(p, d) ELSE Continue(p, d)
           ELSE /\ rows' = rows
                /\ WorkflowRaise(p, c)
        /\ UNCHANGED <<waiter, call, exe, doc, registry, ptasks, sync, now, held, rec, adm, paused, dedup, aging, wfr, periodic, beat>>

\* Group(*tasks).enqueue(): the call and its first INSERT.
GroupCallOf(p, tasks) ==
    /\ prod[p].pc = "idle"
    /\ tasks # <<>>
    /\ \A i \in Ids : rows[i].workflow_id # p
    /\ GroupStep(p, [IdleProd EXCEPT !.pc = "group", !.op = "group", !.n = Len(tasks),
                                     !.batch = tasks])

\* The INSERT of the next task of the group.
GroupInsert(p) ==
    /\ prod[p].pc = "group"
    /\ GroupStep(p, prod[p])

InitChain ==
    /\ now = 0
    /\ rows = <<>>
    /\ prod = [p \in Producers |-> IdleProd]
    /\ held = [w \in Workers |-> 0]
    /\ rec = IdleRec
    /\ adm = IdleAdm
    /\ paused = {}
    /\ last = NoCall
    /\ dedup = TRUE
    /\ aging = 0
    /\ wfr = [k \in Producers |-> NoRun]
    /\ periodic = HourlyTask
    /\ beat = [s \in Schedulers |-> IdleBeat]
    /\ call = IdleCall
    /\ exe = IdleExe
    /\ doc = IdleDoc
    /\ registry = NoRegistry
    /\ ptasks = NoPeriodic
    /\ sync = IdleSync
    /\ waiter = IdleWait

NextChain ==
    \/ \E n \in 1..MaxChain : ChainCall(1, n)
    \/ ChainInsert(1)
    \/ \E w \in Workers : Claim(w)
    \/ \E w \in Workers : FinalizeOk(w)
    \/ \E w \in Workers : FinalizeFailed(w)

SpecChain == InitChain /\ [][NextChain]_vars

\* C16: every WAITING row has wait_count > 0 and a parent that exists and has
\* not finalized, and a row that is not itself finalized has wait_count = 0
\* iff all its parents have finalized; also while Chain.enqueue is inserting.
WaitingHasLiveParent ==
    \A i \in Ids :
        /\ rows[i].status = "WAITING" =>
              /\ rows[i].wait_count > 0
              /\ rows[i].parent_id \in Ids
              /\ ~Terminal(rows[rows[i].parent_id])
        /\ ~Terminal(rows[i]) =>
              (rows[i].wait_count = 0 <=>
                  (rows[i].parent_id = 0 \/ Terminal(rows[rows[i].parent_id])))

ChordStep(p, c) ==
    /\ IF ~AliasOk(c, Len(c.out) + 1)
       THEN /\ rows' = rows
            /\ WorkflowRaise(p, c)
       ELSE IF Len(c.out) < c.n
       THEN /\ rows' = Append(rows, WorkflowRowOf(rows, c.batch[Len(c.out) + 1],
                                                  "READY", 0, p, 0))
            /\ Continue(p, [c EXCEPT !.out = Append(@, Len(rows) + 1)])
       ELSE /\ rows' = Append(rows,
                   WorkflowRowOf(rows, c.batch[c.n + 1],
                                 IF c.n = 0 THEN "READY" ELSE "WAITING", 0, p, c.n))
            /\ Continue(p, [c EXCEPT !.pc = "chordrun", !.i = Len(rows) + 1])
    /\ UNCHANGED <<waiter, call, exe, doc, registry, ptasks, sync, now, held, rec, adm, paused, dedup, aging, wfr, periodic, beat>>

\* Chord(tasks, callback).enqueue(): the call and its first INSERT.
ChordCallOf(p, tasks, callback) ==
    /\ prod[p].pc = "idle"
    /\ wfr[p] = NoRun
    /\ \A i \in Ids : rows[i].workflow_id # p
    /\ ChordStep(p, [IdleProd EXCEPT !.pc = "chord", !.op = "chord", !.n = Len(tasks),
                                     !.batch = Append(tasks, callback)])

\* Chord of n tasks and a callback without attributes.
ChordCall(p, n) == ChordCallOf(p, [k \in 1..n |-> PlainTask], PlainTask)

\* The next INSERT of the call.
ChordInsert(p) ==
    /\ prod[p].pc = "chord"
    /\ ChordStep(p, prod[p])

\* WorkflowRun.objects.create(...) and the return.
ChordRun(p) ==
    /\ prod[p].pc = "chordrun"
    /\ LET c == prod[p]
       IN  /\ wfr' = [wfr EXCEPT ![p] =
                  [expected_count |-> c.n, success_count |-> 0,
                   failure_count |-> 0, callback_result_id |-> c.i,
                   status |-> IF c.n = 0 THEN "WAITING_CALLBACK" ELSE "RUNNING"]]
           /\ WorkflowReturn(p, [c EXCEPT !.out = Append(@, c.i)])
    /\ UNCHANGED <<waiter, call, exe, doc, registry, ptasks, sync, rows, now, held, rec, adm, paused, dedup, aging, periodic, beat>>

NextChord ==
    \/ \E n \in 0..MaxPreds : ChordCall(1, n)
    \/ ChordInsert(1)
    \/ ChordRun(1)
    \/ \E w \in Workers : Claim(w)
    \/ \E w \in Workers : FinalizeOk(w)
    \/ \E w \in Workers : FinalizeFailed(w)

SpecChord == InitChain /\ [][NextChord]_vars

\* The chords that have a WorkflowRun row, and the predecessors of chord k.
Chords == {k \in Producers : wfr[k] # NoRun}
Preds(t, k) ==
    {i \in DOMAIN t : t[i].workflow_id = k /\ i # wfr[k].callback_result_id}

\* C17 (as stated): for every chord success_count + failure_count <=
\* expected_count, and the sum equals expected_count iff the callback row is
\* READY or terminal.
CountersMatchReadyOrTerminal ==
    \A k \in Chords :
        LET f == wfr[k]
            cb == rows[f.callback_result_id]
        IN  /\ f.success_count + f.failure_count <= f.expected_count
            /\ f.success_count + f.failure_count = f.expected_count
                  <=> (cb.status = "READY" \/ Terminal(cb))

\* C17 (amended): for every chord success_count + failure_count <=
\* expected_count, and the sum equals expected_count iff the callback row has
\* left WAITING (it is READY, RUNNING or terminal).
CountersMatchLeftWaiting ==
    \A k \in Chords :
        LET f == wfr[k]
            cb == rows[f.callback_result_id]
        IN  /\ f.success_count + f.failure_count <= f.expected_count
            /\ f.success_count + f.failure_count = f.expected_count
                  <=> cb.status # "WAITING"

\* The counters of a chord with predecessors are complete and its callback
\* is being run.
CallbackRunsOnFullCount ==
    \E k \in Chords :
        /\ wfr[k].expected_count > 0
        /\ wfr[k].success_count = wfr[k].expected_count
        /\ rows[wfr[k].callback_result_id].status = "RUNNING"

\* C18: the callback of a chord leaves WAITING only in a step after which all
\* N predecessors are finalized, to READY with wait_count = 0 if all
\* succeeded and to FAILED with a chord_partial_failure error if any failed,
\* it never returns to WAITING, and once Chord.enqueue has inserted all its
\* rows and all N predecessors are finalized the callback is not WAITING.
CallbackReleasedOnce ==
    [][\A k \in Producers :
         /\ k \in Chords =>
              LET c == wfr[k].callback_result_id
                  ps == Preds(rows, k)
              IN  /\ (rows[c].status = "WAITING" /\ rows'[c].status # "WAITING") =>
                        /\ \A i \in ps : Terminal(rows'[i])
                        /\ IF \A i \in ps : rows'[i].status = "SUCCESSFUL"
                           THEN rows'[c].status = "READY" /\ rows'[c].wait_count = 0
                           ELSE /\ rows'[c].status = "FAILED"
                                /\ rows'[c].errors = <<"chord_partial_failure">>
                  /\ rows[c].status # "WAITING" => rows'[c].status # "WAITING"
         /\ wfr'[k] # NoRun =>
              ( (\A i \in Preds(rows', k) : Terminal(rows'[i]))
                => rows'[wfr'[k].callback_result_id].status # "WAITING" )]_vars

\* ---------------------------------------------------------------------
\* The periodic scheduler: replicas ticking over one PeriodicTask row.

\* The fingerprint of the TaskRun specification synthesized from the task's
\* task_path and payload: the same at every tick.
PeriodicHash == 0

\* The cron times are the multiples of CronPeriod; nextAfter at or after t.
NextAtOrAfter(t) == ((t + CronPeriod - 1) \div CronPeriod) * CronPeriod

\* nextAfter(cron_expr, t): the first cron time strictly greater than t.
NextAfter(t) == ((t \div CronPeriod) + 1) * CronPeriod

\* sync_recurring_tasks: update_or_create of the PeriodicTask row.
SyncRecurring ==
    /\ periodic.locked_by = 0
    /\ periodic' = [periodic EXCEPT !.enabled = TRUE,
                                    !.next_run_at = NextAfter(now)]
    /\ periodic' # periodic
    /\ UNCHANGED <<waiter, call, exe, doc, registry, ptasks, sync, rows, now, prod, held, rec, adm, paused, last, dedup, aging,
                   wfr, beat>>

\* The row a tick at time at emits.
PeriodicRow(at) ==
    [NewRow(PeriodicHash) EXCEPT !.queue_name = "default",
                                 !.priority = 0,
                                 !.lock_key = NoKey,
                                 !.concurrency_key = NoKey,
                                 !.concurrency_limit = 0,
                                 !.enqueued_at = at]

\* A tick of replica s begins its transaction: SELECT ... WHERE enabled AND
\* next_run_at <= now FOR UPDATE SKIP LOCKED. A row locked by another replica
\* is skipped, and a tick that selects nothing does nothing.
BeatSelect(s) ==
    /\ beat[s].pc = "idle"
    /\ periodic.enabled
    /\ periodic.next_run_at <= now
    /\ periodic.locked_by = 0
    /\ periodic' = [periodic EXCEPT !.locked_by = s]
    /\ beat' = [beat EXCEPT ![s] = [pc |-> "emit", at |-> now]]
    /\ UNCHANGED <<waiter, call, exe, doc, registry, ptasks, sync, rows, now, prod, held, rec, adm, paused, last, dedup, aging, wfr>>

\* The rest of the transaction: the insert under the in-flight deduplication
\* rule, the update of the PeriodicTask row, and the commit.
BeatEmit(s) ==
    /\ beat[s].pc = "emit"
    /\ rows' = IF ActiveIds(rows, PeriodicHash) = {}
               THEN Append(rows, PeriodicRow(beat[s].at))
               ELSE rows
    /\ periodic' = [periodic EXCEPT !.last_run_at = beat[s].at,
                                    !.next_run_at = NextAfter(beat[s].at),
                                    !.locked_by = 0]
    /\ beat' = [beat EXCEPT ![s] = IdleBeat]
    /\ UNCHANGED <<waiter, call, exe, doc, registry, ptasks, sync, now, prod, held, rec, adm, paused, last, dedup, aging, wfr>>

NextBeat ==
    \/ Tick
    \/ SyncRecurring
    \/ \E s \in Schedulers : BeatSelect(s)
    \/ \E s \in Schedulers : BeatEmit(s)
    \/ Claim(1)
    \/ FinalizeOk(1)

SpecBeat == InitChain /\ [][NextBeat]_vars

\* The part of a tick that does not depend on the table: the replica had
\* selected the enabled, due row; last_run_at becomes the tick's now and
\* next_run_at the first cron time strictly greater than it; and no two
\* replicas are in a tick on the same row, nor are two rows emitted for one
\* cron period.
TickSchedules(s) ==
    (beat[s].pc = "emit" /\ beat'[s].pc = "idle") =>
        /\ periodic.enabled /\ periodic.next_run_at <= beat[s].at
        /\ periodic'.last_run_at = beat[s].at
        /\ periodic'.next_run_at > beat[s].at
        /\ periodic'.next_run_at % CronPeriod = 0
        /\ \A t \in (beat[s].at + 1)..(periodic'.next_run_at - 1) :
              t % CronPeriod # 0
        /\ \A s2 \in Schedulers \ {s} : beat[s2].pc = "idle"
        /\ \A i, j \in DOMAIN rows' :
              i # j => rows'[i].enqueued_at \div CronPeriod
                          # rows'[j].enqueued_at \div CronPeriod

\* The tick of replica s has appended one READY row.
TickEmitsOne(s) ==
    /\ Len(rows') = Len(rows) + 1
    /\ rows'[Len(rows')].status = "READY"
    /\ rows'[Len(rows')].enqueued_at = beat[s].at
    /\ \A i \in Ids : rows'[i] = rows[i]

\* C20 (as stated): for an enabled PeriodicTask with next_run_at <= now, one
\* scheduler tick inserts exactly one READY row, sets last_run_at = now and
\* next_run_at to the first cron time strictly greater than now; two replicas
\* ticking concurrently emit exactly one row in total.
TickAlwaysEmitsOne ==
    [][\A s \in Schedulers :
          /\ TickSchedules(s)
          /\ (beat[s].pc = "emit" /\ beat'[s].pc = "idle") => TickEmitsOne(s)]_vars

\* C20 (amended): for an enabled PeriodicTask with next_run_at <= now, one
\* scheduler tick inserts exactly one READY row unless a row of the same
\* fingerprint is still READY or RUNNING, in which case it inserts none; in
\* both cases it sets last_run_at = now and next_run_at to the first cron
\* time strictly greater than now; two replicas ticking concurrently emit at
\* most one row in total, because the second skips the locked row.
TickEmitsOneUnlessInFlight ==
    [][\A s \in Schedulers :
          /\ TickSchedules(s)
          /\ (beat[s].pc = "emit" /\ beat'[s].pc = "idle") =>
                IF \E i \in Ids : rows[i].spec_hash = PeriodicHash /\ InFlight(rows[i])
                THEN rows' = rows
                ELSE TickEmitsOne(s)]_vars

\* A tick between two cron times has emitted its row and scheduled the next
\* run while the other replica, having found the row locked, emitted nothing.
TickedOnce ==
    /\ Len(rows) = 1
    /\ rows[1].status = "READY"
    /\ rows[1].enqueued_at % CronPeriod # 0
    /\ periodic.last_run_at = rows[1].enqueued_at
    /\ periodic.next_run_at = CronPeriod
    /\ periodic.locked_by = 0
    /\ \A s \in Schedulers : beat[s].pc = "idle"
    /\ now = rows[1].enqueued_at

\* ---------------------------------------------------------------------
\* enqueue and bulk_enqueue of inputs the validation rejects.

MixedBatches == UNION {[1..n -> MainSpecs \cup BadSpecs] : n \in 1..MaxBatch}

InitValidate ==
    /\ now = 0
    /\ rows = <<>>
    /\ prod = [p \in Producers |-> IdleProd]
    /\ held = [w \in Workers |-> 0]
    /\ rec = IdleRec
    /\ adm = IdleAdm
    /\ paused = {}
    /\ last = NoCall
    /\ dedup \in BOOLEAN
    /\ aging = 0
    /\ wfr = [k \in Producers |-> NoRun]
    /\ periodic = HourlyTask
    /\ beat = [s \in Schedulers |-> IdleBeat]
    /\ call = IdleCall
    /\ exe = IdleExe
    /\ doc = IdleDoc
    /\ registry = NoRegistry
    /\ ptasks = NoPeriodic
    /\ sync = IdleSync
    /\ waiter = IdleWait

NextValidate ==
    \/ \E p \in Producers : \E h \in MainSpecs \cup BadSpecs : EnqueueCall(p, h)
    \/ \E p \in Producers : EnqueueInsert(p)
    \/ \E p \in Producers : EnqueueReselect(p)
    \/ \E p \in Producers : EnqueueReinsert(p)
    \/ \E b \in MixedBatches : BulkCall(NumProducers, b)
    \/ BulkCreate(NumProducers)
    \/ BulkReload(NumProducers)
    \/ BulkFallback(NumProducers)
    \/ Claim(1)
    \/ FinalizeOk(1)

SpecValidate == InitValidate /\ [][NextValidate]_vars

\* C21: an enqueue or bulk_enqueue with an unknown queue or a run_after that
\* is naive or of a wrong type raises and leaves the table as it was, for a
\* bad entry at any place of a bulk batch: the step of the call changes no
\* row and returns the error, no call goes on with such an input and no row
\* of such an input exists.
RejectedInputLeavesTable ==
    [][ /\ \A p \in Producers :
             ( /\ prod[p].pc = "idle"
               /\ last' # last
               /\ last'.p = p
               /\ \/ last'.h \in BadSpecs
                  \/ \E k \in DOMAIN last'.batch : last'.batch[k] \in BadSpecs )
             => (rows' = rows /\ last'.res = -1 /\ prod'[p] = IdleProd)
        /\ \A p \in Producers :
             /\ prod'[p].h \notin BadSpecs
             /\ \A k \in DOMAIN prod'[p].batch : prod'[p].batch[k] \notin BadSpecs
        /\ \A i \in DOMAIN rows' : rows'[i].spec_hash \notin BadSpecs ]_vars

\* bulk_enqueue of a valid entry followed by one with a naive run_after has
\* raised and the table is empty.
BulkRejectedWhole ==
    /\ last.op = "bulk"
    /\ last.res = -1
    /\ Len(last.batch) = 2
    /\ last.batch[1] \in MainSpecs
    /\ BadInput(last.batch[2]) = "naive_datetime"
    /\ rows = <<>>

\* ------------------------------------------------------------- bulk_enqueue
\* bulk_enqueue of batches over two database aliases next to a worker.
MaxBulk == 3
MaxBulkRows == 3

GroupedBatches == UNION {[1..n -> MainSpecs \cup OtherSpecs] : n \in 1..MaxBulk}

InitBulk ==
    /\ now = 0
    /\ rows = <<>>
    /\ prod = [p \in Producers |-> IdleProd]
    /\ held = [w \in Workers |-> 0]
    /\ rec = IdleRec
    /\ adm = IdleAdm
    /\ paused = {}
    /\ last = NoCall
    /\ dedup \in BOOLEAN
    /\ aging = 0
    /\ wfr = [k \in Producers |-> NoRun]
    /\ periodic = HourlyTask
    /\ beat = [s \in Schedulers |-> IdleBeat]
    /\ call = IdleCall
    /\ exe = IdleExe
    /\ doc = IdleDoc
    /\ registry = NoRegistry
    /\ ptasks = NoPeriodic
    /\ sync = IdleSync
    /\ waiter = IdleWait

NextBulk ==
    \/ \E b \in GroupedBatches : BulkCall(NumProducers, b)
    \/ BulkGroup(NumProducers)
    \/ BulkCreateUpTo(NumProducers, MaxBulkRows)
    \/ BulkReload(NumProducers)
    \/ BulkFallbackUpTo(NumProducers, MaxBulkRows)
    \/ Claim(1)
    \/ FinalizeOk(1)

SpecBulk == InitBulk /\ [][NextBulk]_vars

\* C22: a bulk_enqueue that returns gives one handle per entry, the i-th handle
\* naming a row of the i-th entry's fingerprint; with deduplication on, entries
\* of the batch with equal fingerprints receive the same result_id, and no
\* fingerprint has two in-flight rows.
BulkHandlesMatchEntries ==
    /\ UniqueOk(rows)
    /\ (last.op = "bulk" /\ last.res = 0) =>
          /\ Len(last.out) = Len(last.batch)
          /\ \A k \in DOMAIN last.batch :
                /\ last.out[k] \in DOMAIN rows
                /\ rows[last.out[k]].spec_hash = last.batch[k]
          /\ dedup => \A j, k \in DOMAIN last.batch :
                         last.batch[j] = last.batch[k] => last.out[j] = last.out[k]

\* C23: bulk_enqueue is all or nothing: when the call raises after its first
\* statement, no row it inserted remains (the table is as long as when the call
\* began), and when it returns every entry has a row.
BulkAllOrNothing ==
    [][ \A p \in Producers :
          (prod[p].op = "bulk" /\ last' # last /\ last'.p = p) =>
             /\ last'.res = -1 => Len(rows') = prod[p].base
             /\ last'.res = 0 =>
                  \A k \in DOMAIN last'.batch :
                     /\ last'.out[k] \in DOMAIN rows'
                     /\ rows'[last'.out[k]].spec_hash = last'.batch[k] ]_vars

\* The rows of fingerprint h in table t that a call which began at base has
\* inserted.
InsertedSince(t, base, h) == {i \in (base + 1)..Len(t) : t[i].spec_hash = h}

\* C37: with deduplication on, a bulk_enqueue call, whatever a worker does
\* between its statements, has inserted at most one row per fingerprint, and
\* each handle it returns names a row of its entry's fingerprint: the row the
\* call inserted for it, or a row from before the call when it inserted none.
BulkOneRowPerFingerprint ==
    [][ dedup => \A p \in Producers :
          prod[p].op = "bulk" =>
             /\ \A h \in Hashes :
                   Cardinality(InsertedSince(rows', prod[p].base, h)) <= 1
             /\ (last' # last /\ last'.p = p /\ last'.res = 0) =>
                  \A k \in DOMAIN last'.batch :
                     /\ last'.out[k] \in DOMAIN rows'
                     /\ rows'[last'.out[k]].spec_hash = last'.batch[k]
                     /\ LET new == InsertedSince(rows', prod[p].base,
                                                 last'.batch[k])
                        IN  IF new = {} THEN last'.out[k] <= prod[p].base
                            ELSE last'.out[k] \in new ]_vars

\* ------------------------------------------------------------- reserved kwargs
\* The kwargs of a call: a value is [k |-> its kind, v |-> a number standing for
\* it]; strings are numbered (0 is the blank string " ").
ReservedKeys ==
    {"priority", "lock_key", "concurrency_key", "concurrency_limit", "run_after"}

KwargKeys == ReservedKeys \cup {"debug", "delay"}

None == [k |-> "none", v |-> 0]

KwargValues(key) ==
    CASE key = "priority" -> {None, [k |-> "int", v |-> 42]}
      [] key = "lock_key" -> {[k |-> "str", v |-> 1]}
      [] key = "concurrency_key" -> {[k |-> "str", v |-> 0], [k |-> "str", v |-> 2]}
      [] key = "concurrency_limit" ->
            {[k |-> "int", v |-> 0 - 1], [k |-> "int", v |-> 1], [k |-> "float", v |-> 3]}
      [] key = "run_after" -> {[k |-> "duration", v |-> 1], [k |-> "aware", v |-> 2]}
      [] key = "debug" -> {[k |-> "bool", v |-> 1]}
      [] OTHER -> {[k |-> "duration", v |-> 1]}

\* A key that is not passed.
Absent == [k |-> "absent", v |-> 0]

\* The dict holding the keys of f that are passed.
PassedOf(f) == [key \in {x \in KwargKeys : f[x] # Absent} |-> f[key]]

AllKwargs ==
    {PassedOf(f) : f \in [ priority : KwargValues("priority") \cup {Absent},
                           lock_key : KwargValues("lock_key") \cup {Absent},
                           concurrency_key : KwargValues("concurrency_key") \cup {Absent},
                           concurrency_limit : KwargValues("concurrency_limit") \cup {Absent},
                           run_after : KwargValues("run_after") \cup {Absent},
                           debug : KwargValues("debug") \cup {Absent},
                           delay : KwargValues("delay") \cup {Absent} ]}

\* The attributes of the task: Task(priority = 5, run_after = None), no lock_key,
\* concurrency_key or concurrency_limit attribute.
TaskAttr(key) == IF key = "priority" THEN [k |-> "int", v |-> 5] ELSE None

\* kwargs.pop(key, default): the value, and the dict without the key.
Popped(kw, key) == IF key \in DOMAIN kw THEN kw[key] ELSE TaskAttr(key)
Without(kw, key) == [x \in DOMAIN kw \ {key} |-> kw[x]]

\* The string a str value stands for.
StrOf(x) == IF x.k = "none" THEN NoKey
            ELSE IF x.v = 0 THEN " "
            ELSE IF x.v = 1 THEN "a"
            ELSE "b"

\* _normalize_run_after: None, now + duration, or the aware datetime.
NormalizeRunAfter(x) ==
    IF x.k = "none" THEN NULL
    ELSE IF x.k = "duration" THEN now + x.v
    ELSE x.v

\* encode_payload of a kwarg value: a timedelta becomes the tagged record, a
\* scalar is itself.
EncodeValue(x) == IF x.k = "duration" THEN [k |-> "tagged_timedelta", v |-> x.v] ELSE x

\* _resolve_concurrency without the pop of concurrency_limit.
ResolveConcurrencyKeepsLimit(kw) ==
    [ key |-> ResolveKey(StrOf(Popped(kw, "concurrency_key"))),
      limit |-> ResolveLimit(Popped(kw, "concurrency_limit")),
      rest |-> Without(kw, "concurrency_key") ]

\* _resolve_concurrency: pops both fields from the kwargs it is given.
ResolveConcurrency(kw) ==
    [ key |-> ResolveKey(StrOf(Popped(kw, "concurrency_key"))),
      limit |-> ResolveLimit(Popped(kw, "concurrency_limit")),
      rest |-> Without(Without(kw, "concurrency_key"), "concurrency_limit") ]

\* enqueue and bulk_enqueue up to the row they build: the reserved fields are
\* popped before encode_args_kwargs. enqueue pops from the caller's dict,
\* bulk_enqueue from a copy.
BuildEntry ==
    /\ call.pc = "passed"
    /\ LET kw == call.kwargs
           run_after_dt == NormalizeRunAfter(Popped(kw, "run_after"))
           kw1 == Without(kw, "run_after")
           lock_key == StrOf(Popped(kw1, "lock_key"))
           kw2 == Without(kw1, "lock_key")
           passed == Popped(kw2, "priority")
           priority == IF passed.k = "none" THEN 0 ELSE passed.v
           kw3 == Without(kw2, "priority")
           conc == ResolveConcurrency(kw3)
           encoded == [x \in DOMAIN conc.rest |-> EncodeValue(conc.rest[x])]
           fields == [ priority |-> priority, lock_key |-> lock_key,
                       concurrency_key |-> conc.key,
                       concurrency_limit |-> conc.limit,
                       run_after |-> run_after_dt ]
       IN  call' = [call EXCEPT !.pc = "built",
                                !.left = IF call.op = "enqueue" THEN conc.rest ELSE kw,
                                !.row = fields,
                                !.spec = [fields |-> fields, kwargs |-> encoded]]
    /\ UNCHANGED <<waiter, rows, now, prod, held, rec, adm, paused, last, dedup, aging, wfr,
                   periodic, beat, exe, doc, registry, ptasks, sync>>

InitReserved ==
    /\ now = 1
    /\ rows = <<>>
    /\ prod = [p \in Producers |-> IdleProd]
    /\ held = [w \in Workers |-> 0]
    /\ rec = IdleRec
    /\ adm = IdleAdm
    /\ paused = {}
    /\ last = NoCall
    /\ dedup = TRUE
    /\ aging = 0
    /\ wfr = [k \in Producers |-> NoRun]
    /\ periodic = HourlyTask
    /\ beat = [s \in Schedulers |-> IdleBeat]
    /\ call \in {[IdleCall EXCEPT !.pc = "passed", !.op = op, !.kwargs = kw, !.left = kw] :
                    kw \in AllKwargs, op \in {"enqueue", "bulk"}}
    /\ exe = IdleExe
    /\ doc = IdleDoc
    /\ registry = NoRegistry
    /\ ptasks = NoPeriodic
    /\ sync = IdleSync
    /\ waiter = IdleWait

NextReserved == BuildEntry

SpecReserved == InitReserved /\ [][NextReserved]_vars

\* The value a reserved field passed as x gives the row.
FieldOf(key, x) ==
    CASE key = "priority" -> IF x.k = "none" THEN 0 ELSE x.v
      [] key = "lock_key" -> StrOf(x)
      [] key = "concurrency_key" -> IF StrOf(x) = " " THEN NoKey ELSE StrOf(x)
      [] key = "concurrency_limit" ->
            IF x.k = "float" THEN x.v \div 2 ELSE IF x.v < 0 THEN 0 ELSE x.v
      [] OTHER -> IF x.k = "duration" THEN now + x.v ELSE x.v

CancelOnlySetsFlag ==
    [][ (adm' # adm \/ \E i \in Ids : RunCancel(i)) =>
           /\ Len(rows') = Len(rows)
           /\ \A i \in Ids :
                 rows'[i] = [rows[i] EXCEPT !.cancel_requested = rows'[i].cancel_requested] ]_vars

\* C26: every terminal row carries its outcome: a SUCCESSFUL row a return
\* value, a FAILED or CANCELLED row a non-empty errors sequence whose last
\* record is the record of that outcome.
TerminalCarriesOutcome ==
    \A i \in Ids :
       /\ rows[i].status = "SUCCESSFUL" => rows[i].has_return
       /\ rows[i].status = "FAILED" =>
             /\ rows[i].errors # <<>>
             /\ rows[i].errors[Len(rows[i].errors)] \in {"failed", "reclaim"}
       /\ rows[i].status = "CANCELLED" =>
             /\ rows[i].errors # <<>>
             /\ rows[i].errors[Len(rows[i].errors)] = "cancelled"

\* ------------------------------------------------------------- recurring tasks
\* The registry: a list of RecurringTask entries with different keys; cron_expr
\* and the payload are numbered.
NumSchedules == 2
NumPayloads == 2
MaxRegistry == 2

RecurringEntries ==
    [key : RecurringKeys, schedule : 1..NumSchedules, payload : 1..NumPayloads,
     enabled : BOOLEAN]

Registries ==
    {r \in UNION {[1..n -> RecurringEntries] : n \in 0..MaxRegistry} :
        \A i, j \in DOMAIN r : i # j => r[i].key # r[j].key}

RegistryKeys(r) == {r[i].key : i \in DOMAIN r}

\* The entry of key n.
EntryOf(r, n) == r[CHOOSE i \in DOMAIN r : r[i].key = n]

\* update_or_create(name = task.key, defaults = {...}).
Upserted(e) ==
    [present |-> TRUE, cron_expr |-> e.schedule, payload |-> e.payload,
     enabled |-> e.enabled, next_run_at |-> NextAfter(now)]

\* The recurring decorators of a new deployment have filled the registry.
Deploy(r) ==
    /\ r # registry
    /\ registry' = r
    /\ sync' = IdleSync
    /\ UNCHANGED <<waiter, rows, now, prod, held, rec, adm, paused, last, dedup, aging, wfr,
                   periodic, beat, call, exe, doc, ptasks>>

\* sync_recurring_tasks(using = "default", clear_missing = clear): returns 0 at
\* once when the registry is empty; otherwise upserts every entry and, with
\* clear_missing, disables the rows of every other name.
SyncRecurringTasks(clear) ==
    /\ IF registry = <<>>
       THEN /\ ptasks' = ptasks
            /\ sync' = [pc |-> "done", clear |-> clear, total |-> 0]
       ELSE /\ ptasks' = [n \in RecurringKeys |->
                            IF n \in RegistryKeys(registry)
                            THEN Upserted(EntryOf(registry, n))
                            ELSE IF clear THEN [ptasks[n] EXCEPT !.enabled = FALSE]
                            ELSE ptasks[n]]
            /\ sync' = [pc |-> "done", clear |-> clear, total |-> Len(registry)]
    /\ UNCHANGED <<waiter, rows, now, prod, held, rec, adm, paused, last, dedup, aging, wfr,
                   periodic, beat, call, exe, doc, registry>>

InitRecurring ==
    /\ now = 0
    /\ rows = <<>>
    /\ prod = [p \in Producers |-> IdleProd]
    /\ held = [w \in Workers |-> 0]
    /\ rec = IdleRec
    /\ adm = IdleAdm
    /\ paused = {}
    /\ last = NoCall
    /\ dedup = TRUE
    /\ aging = 0
    /\ wfr = [k \in Producers |-> NoRun]
    /\ periodic = HourlyTask
    /\ beat = [s \in Schedulers |-> IdleBeat]
    /\ call = IdleCall
    /\ exe = IdleExe
    /\ doc = IdleDoc
    /\ registry = NoRegistry
    /\ ptasks = NoPeriodic
    /\ sync = IdleSync
    /\ waiter = IdleWait

NextRecurring ==
    \/ \E r \in Registries : Deploy(r)
    \/ \E clear \in BOOLEAN : SyncRecurringTasks(clear)

SpecRecurring == InitRecurring /\ [][NextRecurring]_vars

\* The table mirrors the registry a sync has run on.
Mirrored ==
    sync.pc = "done" =>
        /\ \A i \in DOMAIN registry :
              /\ ptasks[registry[i].key].present
              /\ ptasks[registry[i].key].cron_expr = registry[i].schedule
              /\ ptasks[registry[i].key].payload = registry[i].payload
              /\ ptasks[registry[i].key].enabled = registry[i].enabled
        /\ sync.clear =>
              \A n \in RecurringKeys \ RegistryKeys(registry) :
                 ptasks[n].present => ~ptasks[n].enabled

\* C27: sync_recurring_tasks deletes no PeriodicTask row; after a run every
\* registry entry has its row with the entry's schedule, payload and enabled
\* flag, and after a run with clear_missing every row of a name that is no
\* registry key is disabled, for every registry, the empty one included.
SyncMirrorsRegistry ==
    [][ /\ \A n \in RecurringKeys : ptasks[n].present => ptasks'[n].present
        /\ Mirrored' ]_vars

\* ------------------------------------------------------------- executor
\* One run of the executor process. input: what the run is given (the payload
\* parses or not, the task imports or not, the arguments decode or not, the task
\* returns a serializable value, raises or returns a non-serializable value, and
\* prints to stdout or not). out: the lines on the process's stdout; captured:
\* what was written while sys.stdout was redirected; code: the exit code of a
\* pending sys.exit or return; exit: how the process has ended.
ExecutorInputs ==
    [ payload : {"ok", "bad"}, import : {"ok", "missing"},
      args : {"ok", "undecodable"},
      task : {"returns", "raises", "unserializable"}, writes : BOOLEAN ]

\* emit_result up to its print: the envelope goes to what sys.stdout is now.
Emitted(e, envelope, code) ==
    IF e.redirected
    THEN [e EXCEPT !.captured = Append(@, envelope), !.code = code, !.pc = "printed"]
    ELSE [e EXCEPT !.out = Append(@, envelope), !.code = code, !.pc = "printed"]

ExeStep(e) ==
    /\ exe' = e
    /\ UNCHANGED <<waiter, rows, now, prod, held, rec, adm, paused, last, dedup, aging, wfr,
                   periodic, beat, call, doc, registry, ptasks, sync>>

\* json.loads(payload_raw), or the PayloadError envelope.
ExeLoad ==
    /\ exe.pc = "start"
    /\ ExeStep(IF exe.input.payload = "bad"
               THEN Emitted(exe, "fail", "nonzero")
               ELSE [exe EXCEPT !.pc = "setup"])

\* setup_django and import_string(task_path), or the ImportError envelope.
ExeImport ==
    /\ exe.pc = "setup"
    /\ ExeStep(IF exe.input.import = "missing"
               THEN Emitted(exe, "fail", "nonzero")
               ELSE [exe EXCEPT !.pc = "install"])

\* The metadata is loaded and signal.signal installs signal_handler.
ExeInstall ==
    /\ exe.pc = "install"
    /\ ExeStep([exe EXCEPT !.handlers = TRUE, !.pc = "decode"])

\* decode_args_kwargs; then sys.stdout is redirected and the task is called.
ExeDecode ==
    /\ exe.pc = "decode"
    /\ ExeStep(IF exe.input.args = "undecodable"
               THEN [exe EXCEPT !.pc = "failing"]
               ELSE [exe EXCEPT !.redirected = TRUE, !.pc = "running"])

\* The task runs to its end inside redirect_stdout, which is then left.
ExeRun ==
    /\ exe.pc = "running"
    /\ LET e == [exe EXCEPT !.redirected = FALSE,
                            !.captured = IF exe.input.writes
                                         THEN Append(@, "noise") ELSE @]
       IN  ExeStep([e EXCEPT !.pc = IF exe.input.task = "raises"
                                     THEN "failing" ELSE "check"])

\* json.dumps(result_val), save_metadata, task_finished.
ExeCheck ==
    /\ exe.pc = "check"
    /\ ExeStep([exe EXCEPT !.pc = IF exe.input.task = "unserializable"
                                   THEN "failing" ELSE "succeeding"])

\* emit_result({"ok": True, "return": result_val}): the print.
ExeEmitOk ==
    /\ exe.pc = "succeeding"
    /\ ExeStep(Emitted(exe, "ok", "zero"))

\* The except branch: emit_result({"ok": False, ...}, exit_code=1): the print.
ExeEmitFailed ==
    /\ exe.pc = "failing"
    /\ ExeStep(Emitted(exe, "fail", "nonzero"))

\* After the print: sys.exit(exit_code), or the return of execute().
ExeExit ==
    /\ exe.pc = "printed"
    /\ ExeStep([exe EXCEPT !.pc = "exited", !.exit = exe.code])

\* SIGTERM or SIGINT reaches the running process. Before signal_handler is
\* installed the process ends without running it; afterwards signal_handler
\* runs between two bytecodes of the main thread: it prints its envelope to
\* what sys.stdout is now and raises SystemExit(1), which no except clause of
\* execute catches.
ExeSignal ==
    /\ exe.pc \notin {"idle", "exited"}
    /\ ExeStep(IF exe.handlers
               THEN [Emitted(exe, "fail", "nonzero") EXCEPT !.pc = "exited",
                                                           !.redirected = FALSE,
                                                           !.exit = "nonzero"]
               ELSE [exe EXCEPT !.pc = "exited", !.exit = "nonzero"])

InitExecutor ==
    /\ now = 0
    /\ rows = <<>>
    /\ prod = [p \in Producers |-> IdleProd]
    /\ held = [w \in Workers |-> 0]
    /\ rec = IdleRec
    /\ adm = IdleAdm
    /\ paused = {}
    /\ last = NoCall
    /\ dedup = TRUE
    /\ aging = 0
    /\ wfr = [k \in Producers |-> NoRun]
    /\ periodic = HourlyTask
    /\ beat = [s \in Schedulers |-> IdleBeat]
    /\ call = IdleCall
    /\ exe \in {[IdleExe EXCEPT !.pc = "start", !.input = x] : x \in ExecutorInputs}
    /\ doc = IdleDoc
    /\ registry = NoRegistry
    /\ ptasks = NoPeriodic
    /\ sync = IdleSync
    /\ waiter = IdleWait

NextExecutor ==
    \/ ExeLoad
    \/ ExeImport
    \/ ExeInstall
    \/ ExeDecode
    \/ ExeRun
    \/ ExeCheck
    \/ ExeEmitOk
    \/ ExeEmitFailed
    \/ ExeExit
    \/ ExeSignal

SpecExecutor == InitExecutor /\ [][NextExecutor]_vars

\* C28: a run that has ended has written exactly one envelope to stdout: an
\* ok envelope with exit code 0 when the task returned a serializable value,
\* a failure envelope with a non-zero exit code otherwise, signals included.
OneEnvelopePerRun ==
    exe.pc = "exited" =>
        /\ Len(exe.out) = 1
        /\ exe.out[1] = "ok" <=> exe.exit = "zero"
        /\ exe.out[1] = "ok" =>
              /\ exe.input.payload = "ok"
              /\ exe.input.import = "ok"
              /\ exe.input.args = "ok"
              /\ exe.input.task = "returns"

\* ------------------------------------------------------------- serialization
\* A Python value: t is its type, a the number of a scalar (strings, decimals
\* and durations are numbered), kids the items of a list or tuple, or the
\* (key, value) pairs of a dict in insertion order. Keys are numbered by
\* code-point order; TYPE_MARKER ("__reproq_type__") sorts before the
\* lower-case keys.
MarkerKey == 0

Scalar(t, a) == [t |-> t, a |-> a, kids |-> <<>>]
Pair(k, x) == [k |-> k, x |-> x]
Container(t, kids) == [t |-> t, a |-> 0, kids |-> kids]

\* The dicts of at most two of the keys ks (in either order) over values vs.
DictsOver(ks, vs) ==
    {Container("dict", <<>>)}
    \cup {Container("dict", <<Pair(k, x)>>) : k \in ks, x \in vs}
    \cup UNION {{Container("dict", <<Pair(k1, x1), Pair(k2, x2)>>) :
                    k2 \in ks \ {k1}, x1 \in vs, x2 \in vs} : k1 \in ks}

\* The lists and tuples of at most one of the values vs.
SequencesOver(ts, vs) ==
    {Container(t, <<>>) : t \in ts} \cup {Container(t, <<Pair(0, x)>>) : t \in ts, x \in vs}

\* The text of a Decimal or a timedelta under DjangoJSONEncoder: a string (the
\* strings 10 and up are these texts).
TextOf(v) == Scalar("str", (IF v.t = "decimal" THEN 10 ELSE 20) + v.a)

\* The pairs of a dict in ascending key order (sort_keys=True).
RECURSIVE SortedKids(_)
SortedKids(kids) ==
    IF kids = <<>> THEN <<>>
    ELSE LET m == CHOOSE i \in DOMAIN kids : \A j \in DOMAIN kids : kids[i].k <= kids[j].k
         IN  <<kids[m]>> \o SortedKids([j \in 1..(Len(kids) - 1) |->
                                           IF j < m THEN kids[j] ELSE kids[j + 1]])

\* The pairs of a dict as they come.
InsertionOrder(kids) == kids

\* The order json.dumps writes the pairs of a dict in.
DumpOrder(kids) == SortedKids(kids)

Token(c, n) == [c |-> c, n |-> n]

\* canonical_json: the text, as a sequence of tokens. separators=(",", ":")
\* puts nothing between them; tuples are written as lists, Decimals and
\* timedeltas as strings.
RECURSIVE CanonicalJson(_)
RECURSIVE DumpItems(_, _)
DumpItems(kids, keyed) ==
    IF kids = <<>> THEN <<>>
    ELSE (IF keyed THEN <<Token("key", Head(kids).k), Token(":", 0)>> ELSE <<>>)
         \o CanonicalJson(Head(kids).x)
         \o (IF Len(kids) > 1 THEN <<Token(",", 0)>> ELSE <<>>)
         \o DumpItems(Tail(kids), keyed)

CanonicalJson(v) ==
    CASE v.t = "dict" -> <<Token("{", 0)>> \o DumpItems(DumpOrder(v.kids), TRUE) \o <<Token("}", 0)>>
      [] v.t \in {"list", "tuple"} -> <<Token("[", 0)>> \o DumpItems(v.kids, FALSE) \o <<Token("]", 0)>>
      [] v.t \in {"decimal", "timedelta"} -> <<Token("str", TextOf(v).a)>>
      [] OTHER -> <<Token(v.t, v.a)>>

\* json.loads(canonical_json(v)): what the text reads back as.
RECURSIVE NormalizeJson(_)
NormalizeJson(v) ==
    CASE v.t = "dict" ->
            Container("dict", [i \in DOMAIN v.kids |->
                                  Pair(DumpOrder(v.kids)[i].k,
                                       NormalizeJson(DumpOrder(v.kids)[i].x))])
      [] v.t \in {"list", "tuple"} ->
            Container("list", [i \in DOMAIN v.kids |-> Pair(0, NormalizeJson(v.kids[i].x))])
      [] v.t \in {"decimal", "timedelta"} -> TextOf(v)
      [] OTHER -> v

\* sha256 of the UTF-8 bytes of the text: equal exactly for equal texts.
Sha256(text) == <<"sha256", text>>

\* normalize_and_hash
NormalizeAndHash(v) == [spec |-> NormalizeJson(v), hash |-> Sha256(CanonicalJson(v))]

\* The same value with the pairs of its dicts in reverse order: at the top
\* level, below it, or at every level.
RECURSIVE Reordered(_, _, _)
Reordered(v, top, nested) ==
    LET n == Len(v.kids)
        at(i) == IF v.t = "dict" /\ top THEN n + 1 - i ELSE i
    IN  [v EXCEPT !.kids = [i \in 1..n |->
                               Pair(v.kids[at(i)].k,
                                    Reordered(v.kids[at(i)].x, nested, nested))]]

SpecScalars == {Scalar("int", 1), Scalar("str", 1), Scalar("decimal", 1)}

SpecParts ==
    SpecScalars \cup DictsOver({1, 2}, SpecScalars)
    \cup SequencesOver({"list", "tuple"}, SpecScalars)

\* The specifications handed to normalize_and_hash: dicts of dicts.
SpecDocs == DictsOver({1, 2}, SpecParts)

\* normalize_and_hash of the document, of its normalized form, and of the
\* document with its keys in another order.
Canonicalize ==
    /\ doc.pc = "given"
    /\ LET first == NormalizeAndHash(doc.in)
           shuffled == Reordered(doc.in, doc.flip \in {"top", "all"},
                                 doc.flip \in {"nested", "all"})
       IN  doc' = [doc EXCEPT !.pc = "hashed",
                              !.out = [ first |-> first,
                                        again |-> NormalizeAndHash(first.spec),
                                        shuffled |-> shuffled,
                                        other |-> NormalizeAndHash(shuffled),
                                        text |-> CanonicalJson(doc.in),
                                        other_text |-> CanonicalJson(shuffled) ]]
    /\ UNCHANGED <<waiter, rows, now, prod, held, rec, adm, paused, last, dedup, aging, wfr,
                   periodic, beat, call, exe, registry, ptasks, sync>>

InitCanonical ==
    /\ now = 0
    /\ rows = <<>>
    /\ prod = [p \in Producers |-> IdleProd]
    /\ held = [w \in Workers |-> 0]
    /\ rec = IdleRec
    /\ adm = IdleAdm
    /\ paused = {}
    /\ last = NoCall
    /\ dedup = TRUE
    /\ aging = 0
    /\ wfr = [k \in Producers |-> NoRun]
    /\ periodic = HourlyTask
    /\ beat = [s \in Schedulers |-> IdleBeat]
    /\ call = IdleCall
    /\ exe = IdleExe
    /\ doc \in {[IdleDoc EXCEPT !.pc = "given", !.in = d, !.flip = f] :
                   d \in SpecDocs, f \in {"none", "top", "nested", "all"}}
    /\ registry = NoRegistry
    /\ ptasks = NoPeriodic
    /\ sync = IdleSync
    /\ waiter = IdleWait

NextCanonical == Canonicalize

SpecCanonical == InitCanonical /\ [][NextCanonical]_vars

\* C29: normalizing a normalized specification returns it unchanged with the
\* same fingerprint, and a specification with its mapping keys in another
\* order, at the top level or below, has the same canonical text, normalized
\* form and fingerprint.
CanonicalizationStable ==
    doc.pc = "hashed" =>
        /\ doc.out.again.spec = doc.out.first.spec
        /\ doc.out.again.hash = doc.out.first.hash
        /\ doc.out.other_text = doc.out.text
        /\ doc.out.other.spec = doc.out.first.spec
        /\ doc.out.other.hash = doc.out.first.hash

\* A specification whose nested mapping was given in another key order, and
\* which normalization changes, has been hashed.
NestedKeysReordered ==
    /\ doc.pc = "hashed"
    /\ doc.flip = "nested"
    /\ doc.out.shuffled # doc.in
    /\ doc.out.first.spec # doc.in
    /\ \E i \in DOMAIN doc.in.kids : Len(doc.in.kids[i].x.kids) = 2

\* ------------------------------------------------------------- encode, decode
\* Keys after the marker and the user key 1: "days", "microseconds", "seconds".
\* Strings: 1 is a user string, 2 is "timedelta", 3 is "model".
DaysKey == 2
MicrosecondsKey == 3
SecondsKey == 4

KindName(x) ==
    IF x.t # "str" THEN "other"
    ELSE IF x.a = 2 THEN "timedelta"
    ELSE IF x.a = 3 THEN "model"
    ELSE "other"

HasKey(v, k) == \E i \in DOMAIN v.kids : v.kids[i].k = k

\* value.get(k, default)
GetKey(v, k, default) ==
    IF HasKey(v, k) THEN v.kids[CHOOSE i \in DOMAIN v.kids : v.kids[i].k = k].x
    ELSE default

\* encode_payload: a timedelta (numbered by its days) becomes the tagged dict,
\* lists and tuples become lists of encoded items, dicts keep their keys.
RECURSIVE EncodePayload(_)
EncodePayload(v) ==
    CASE v.t = "timedelta" ->
            Container("dict", << Pair(MarkerKey, Scalar("str", 2)),
                                 Pair(DaysKey, Scalar("int", v.a)),
                                 Pair(SecondsKey, Scalar("int", 0)),
                                 Pair(MicrosecondsKey, Scalar("int", 0)) >>)
      [] v.t \in {"list", "tuple"} ->
            Container("list", [i \in DOMAIN v.kids |-> Pair(0, EncodePayload(v.kids[i].x))])
      [] v.t = "dict" ->
            Container("dict", [i \in DOMAIN v.kids |->
                                  Pair(v.kids[i].k, EncodePayload(v.kids[i].x))])
      [] OTHER -> v

\* DeserializationError raised.
Failed == Scalar("DeserializationError", 0)

\* The container with its items decoded as ds, or the error one of them raised.
Decoded(v, ds) ==
    IF \E i \in DOMAIN ds : ds[i] = Failed THEN Failed
    ELSE [v EXCEPT !.kids = [i \in DOMAIN v.kids |-> Pair(v.kids[i].k, ds[i])]]

\* decode_payload that inverts a wrapper only where it is the value itself or
\* an item of a list.
RECURSIVE DecodeListsOnly(_)
DecodeListsOnly(v) ==
    CASE v.t = "list" -> Decoded(v, [i \in DOMAIN v.kids |-> DecodeListsOnly(v.kids[i].x)])
      [] v.t = "dict" /\ HasKey(v, MarkerKey) ->
            IF KindName(GetKey(v, MarkerKey, Failed)) = "timedelta"
            THEN Scalar("timedelta", GetKey(v, DaysKey, Scalar("int", 0)).a)
            ELSE Failed
      [] OTHER -> v

\* decode_payload: lists and dicts are decoded item by item; a dict holding
\* the marker is a timedelta, or raises DeserializationError for any other
\* kind (a model reference is looked up in the database: none exists here).
RECURSIVE DecodePayload(_)
DecodePayload(v) ==
    CASE v.t = "list" -> Decoded(v, [i \in DOMAIN v.kids |-> DecodePayload(v.kids[i].x)])
      [] v.t = "dict" /\ HasKey(v, MarkerKey) ->
            IF KindName(GetKey(v, MarkerKey, Failed)) = "timedelta"
            THEN Scalar("timedelta", GetKey(v, DaysKey, Scalar("int", 0)).a)
            ELSE Failed
      [] v.t = "dict" -> Decoded(v, [i \in DOMAIN v.kids |-> DecodePayload(v.kids[i].x)])
      [] OTHER -> v

\* encode_args_kwargs: list(args) and dict(kwargs), encoded.
EncodeArgsKwargs(args, kwargs) ==
    [args |-> EncodePayload([args EXCEPT !.t = "list"]), kwargs |-> EncodePayload(kwargs)]

\* decode_args_kwargs
DecodeArgsKwargs(enc) ==
    [args |-> DecodePayload(enc.args), kwargs |-> DecodePayload(enc.kwargs)]

\* The values of args and kwargs: scalars, durations, and lists, tuples and
\* dicts of them, two levels deep; a dict may use the marker key.
ArgScalars ==
    {Scalar("int", 1), Scalar("str", 1), Scalar("str", 2), Scalar("timedelta", 1)}

ArgParts ==
    ArgScalars \cup DictsOver({MarkerKey, 1}, ArgScalars)
    \cup SequencesOver({"list", "tuple"}, ArgScalars)

ArgValues ==
    ArgParts \cup DictsOver({1}, ArgParts) \cup SequencesOver({"list", "tuple"}, ArgParts)

ArgTuples == SequencesOver({"tuple"}, ArgValues)
KwargDicts == {Container("dict", <<>>)} \cup {Container("dict", <<Pair(1, x)>>) : x \in ArgValues}

\* encode_args_kwargs, then decode_args_kwargs of what it returned.
RoundTrip ==
    /\ doc.pc = "passed"
    /\ LET enc == EncodeArgsKwargs(doc.in.args, doc.in.kwargs)
       IN  doc' = [doc EXCEPT !.pc = "decoded",
                              !.out = [enc |-> enc, dec |-> DecodeArgsKwargs(enc)]]
    /\ UNCHANGED <<waiter, rows, now, prod, held, rec, adm, paused, last, dedup, aging, wfr,
                   periodic, beat, call, exe, registry, ptasks, sync>>

InitRoundTrip ==
    /\ now = 0
    /\ rows = <<>>
    /\ prod = [p \in Producers |-> IdleProd]
    /\ held = [w \in Workers |-> 0]
    /\ rec = IdleRec
    /\ adm = IdleAdm
    /\ paused = {}
    /\ last = NoCall
    /\ dedup = TRUE
    /\ aging = 0
    /\ wfr = [k \in Producers |-> NoRun]
    /\ periodic = HourlyTask
    /\ beat = [s \in Schedulers |-> IdleBeat]
    /\ call = IdleCall
    /\ exe = IdleExe
    /\ doc \in {[IdleDoc EXCEPT !.pc = "passed", !.in = [args |-> a, kwargs |-> k]] :
                   a \in ArgTuples, k \in KwargDicts}
    /\ registry = NoRegistry
    /\ ptasks = NoPeriodic
    /\ sync = IdleSync
    /\ waiter = IdleWait

NextRoundTrip == RoundTrip

SpecRoundTrip == InitRoundTrip /\ [][NextRoundTrip]_vars

\* A dict of the value holds the marker key.
RECURSIVE UsesMarker(_)
UsesMarker(v) ==
    \/ v.t = "dict" /\ HasKey(v, MarkerKey)
    \/ \E i \in DOMAIN v.kids : UsesMarker(v.kids[i].x)

\* Decoding meets a dict that holds the marker key with an unknown kind.
RECURSIVE MeetsUnknownKind(_)
MeetsUnknownKind(v) ==
    IF v.t = "dict" /\ HasKey(v, MarkerKey)
    THEN KindName(GetKey(v, MarkerKey, Failed)) = "other"
    ELSE v.t \in {"list", "dict"} /\ \E i \in DOMAIN v.kids : MeetsUnknownKind(v.kids[i].x)

\* The value with every tuple as a list.
RECURSIVE AsLists(_)
AsLists(v) ==
    [v EXCEPT !.t = IF v.t = "tuple" THEN "list" ELSE v.t,
              !.kids = [i \in DOMAIN v.kids |-> Pair(v.kids[i].k, AsLists(v.kids[i].x))]]

MarkerFree == ~UsesMarker(doc.in.args) /\ ~UsesMarker(doc.in.kwargs)

UnknownKindFails ==
    (MeetsUnknownKind(doc.out.enc.args) \/ MeetsUnknownKind(doc.out.enc.kwargs)) =>
        (doc.out.dec.args = Failed \/ doc.out.dec.kwargs = Failed)

\* C30 as stated: for args and kwargs without the marker key, decoding the
\* encoding gives back list(args) and kwargs as they were; an unknown kind
\* under the marker key makes decoding fail.
RoundTripExact ==
    doc.pc = "decoded" =>
        /\ MarkerFree =>
              /\ doc.out.dec.args = [doc.in.args EXCEPT !.t = "list"]
              /\ doc.out.dec.kwargs = doc.in.kwargs
        /\ UnknownKindFails

\* C30: for args and kwargs without the marker key, decoding the encoding gives
\* back args and kwargs with every tuple, at any depth, as a list and every
\* duration as it was; an unknown kind under the marker key makes decoding fail.
RoundTripUpToTuples ==
    doc.pc = "decoded" =>
        /\ MarkerFree =>
              /\ doc.out.dec.args = AsLists(doc.in.args)
              /\ doc.out.dec.kwargs = AsLists(doc.in.kwargs)
        /\ UnknownKindFails

\* A duration inside a tuple inside a dict has made the round trip.
NestedDurationDecoded ==
    /\ doc.pc = "decoded"
    /\ MarkerFree
    /\ Len(doc.in.kwargs.kids) = 1
    /\ doc.in.kwargs.kids[1].x.t = "tuple"
    /\ Len(doc.in.kwargs.kids[1].x.kids) = 1
    /\ doc.in.kwargs.kids[1].x.kids[1].x = Scalar("timedelta", 1)
    /\ doc.out.enc.kwargs # doc.in.kwargs
    /\ doc.out.dec.kwargs # doc.in.kwargs

\* ------------------------------------------------------------- wait
\* Builds of django.tasks differ in the members of TaskResultStatus.
Builds == SUBSET {"CANCELLED", "PENDING"}

\* wait(timeout=...): None, 0, or a positive number of seconds.
Timeouts == {NULL, 0, 1}

\* TaskResultProxy.status: the member named by the raw status, the member
\* _map_status gives, or RuntimeError.
StatusOf(raw, members) ==
    IF raw \in {"READY", "RUNNING", "FAILED", "SUCCESSFUL"} \cup members THEN raw
    ELSE IF raw \in {"READY", "WAITING"} /\ "PENDING" \in members THEN "PENDING"
    ELSE IF raw = "CANCELLED" /\ "CANCELLED" \in members THEN "CANCELLED"
    ELSE "RuntimeError"

\* _terminal_statuses
TerminalStatuses(members) ==
    {"SUCCESSFUL", "FAILED"} \cup (IF "CANCELLED" \in members THEN {"CANCELLED"} ELSE {})

\* The timeout is truthy.
Truthy(t) == t # NULL /\ t # 0

\* wait is called: start_time = time.time().
WaitCall(i, t, b) ==
    /\ waiter.pc = "idle"
    /\ i \in Ids
    /\ waiter' = [waiter EXCEPT !.pc = "refresh", !.id = i, !.timeout = t, !.start = now,
                                !.members = b]
    /\ UNCHANGED <<rows, now, prod, held, rec, adm, paused, last, dedup, aging, wfr,
                   periodic, beat, call, exe, doc, registry, ptasks, sync>>

\* One turn of the loop: refresh, the status test, the timeout test.
WaitPoll ==
    /\ waiter.pc = "refresh"
    /\ LET st == StatusOf(rows[waiter.id].status, waiter.members)
       IN  waiter' = [waiter EXCEPT
              !.seen = rows[waiter.id].status,
              !.pc = IF st = "RuntimeError" THEN "RuntimeError"
                     ELSE IF st \in TerminalStatuses(waiter.members) THEN "returned"
                     ELSE IF Truthy(waiter.timeout) /\ now - waiter.start > waiter.timeout
                          THEN "TimeoutError"
                     ELSE "sleep"]
    /\ UNCHANGED <<rows, now, prod, held, rec, adm, paused, last, dedup, aging, wfr,
                   periodic, beat, call, exe, doc, registry, ptasks, sync>>

\* time.sleep(poll_interval) returns.
WaitSleep ==
    /\ waiter.pc = "sleep"
    /\ waiter' = [waiter EXCEPT !.pc = "refresh"]
    /\ UNCHANGED <<rows, now, prod, held, rec, adm, paused, last, dedup, aging, wfr,
                   periodic, beat, call, exe, doc, registry, ptasks, sync>>

\* One row, READY or WAITING (a chain's later task), and nobody waiting yet.
InitWait ==
    /\ now = 0
    /\ rows \in {<<[NewRow(h) EXCEPT !.status = s]>> : h \in MainSpecs, s \in {"READY", "WAITING"}}
    /\ prod = [p \in Producers |-> IdleProd]
    /\ held = [w \in Workers |-> 0]
    /\ rec = IdleRec
    /\ adm = IdleAdm
    /\ paused = {}
    /\ last = NoCall
    /\ dedup = TRUE
    /\ aging = 0
    /\ wfr = [k \in Producers |-> NoRun]
    /\ periodic = HourlyTask
    /\ beat = [s \in Schedulers |-> IdleBeat]
    /\ call = IdleCall
    /\ exe = IdleExe
    /\ doc = IdleDoc
    /\ registry = NoRegistry
    /\ ptasks = NoPeriodic
    /\ sync = IdleSync
    /\ waiter = IdleWait

\* The row's parent finishes and the coordinator releases the row.
Release ==
    /\ \E i \in Ids : rows[i].status = "WAITING"
    /\ rows' = [i \in Ids |-> IF rows[i].status = "WAITING"
                              THEN [rows[i] EXCEPT !.status = "READY", !.wait_count = 0]
                              ELSE rows[i]]
    /\ UNCHANGED <<waiter, call, exe, doc, registry, ptasks, sync, now, prod, held, rec, adm,
                   paused, last, dedup, aging, wfr, periodic, beat>>

NextWait ==
    \/ Tick
    \/ Release
    \/ \E w \in Workers : Claim(w)
    \/ \E w \in Workers : FinalizeOk(w)
    \/ \E w \in Workers : FinalizeFailed(w)
    \/ \E w \in Workers : FinalizeCancelled(w)
    \/ \E i \in 1..MaxRows : RunCancel(i)
    \/ \E i \in 1..MaxRows, t \in Timeouts, b \in Builds : WaitCall(i, t, b)
    \/ WaitPoll
    \/ WaitSleep

\* The waiting thread runs; so does the clock until MaxTime.
SpecWait ==
    /\ InitWait
    /\ [][NextWait]_vars
    /\ WF_vars(WaitPoll)
    /\ WF_vars(WaitSleep)
    /\ WF_vars(Tick)

Waiting == waiter.pc \in {"refresh", "sleep"}

\* C31: wait returns only on a read that shows a terminal status; once the row
\* is terminal a wait in progress returns; a wait with a timeout that has
\* elapsed, on a row that is not terminal, raises TimeoutError.
WaitReturnsOrTimesOut ==
    /\ [](waiter.pc = "returned" => waiter.seen \in {"SUCCESSFUL", "FAILED", "CANCELLED"})
    /\ []((Waiting /\ Terminal(rows[1])) => <>(waiter.pc = "returned"))
    /\ []((Waiting /\ waiter.timeout # NULL /\ now - waiter.start > waiter.timeout)
            => <>(waiter.pc \in {"TimeoutError", "returned"}))

\* ------------------------------------------------------------- racing enqueues
\* Producer p is inside an enqueue call that has not returned.
InEnqueue(p) == prod[p].op = "enqueue" /\ prod[p].pc # "idle"

\* The step is an enqueue call of p that returns without having waited.
EnqueuedAtOnce(p) ==
    /\ prod[p].pc = "idle" /\ prod'[p].pc = "idle"
    /\ last' # last /\ last'.p = p /\ last'.op = "enqueue"

\* The call of p that returns in this step returns a handle to an in-flight
\* row of fingerprint h, inserted by this step or found, or fails leaving the
\* table as it was.
EndsWell(p, h, mayFail) ==
    /\ last'.p = p /\ last'.op = "enqueue" /\ last'.h = h
    /\ IF last'.res = -1
       THEN mayFail /\ rows' = rows
       ELSE /\ last'.res \in DOMAIN rows'
            /\ rows'[last'.res].spec_hash = h
            /\ InFlight(rows'[last'.res])
            /\ IF last'.created
               THEN rows' = Append(rows, rows'[last'.res]) /\ last'.res = Len(rows')
               ELSE rows' = rows

\* One step of producer p with dedup on: the call moves along SELECT, INSERT,
\* re-SELECT, one re-INSERT, and inserts nothing unless it returns.
RaceStep(p) ==
    /\ EnqueuedAtOnce(p) => EndsWell(p, last'.h, FALSE)
    /\ (prod[p].pc = "idle" /\ prod'[p].op = "enqueue") =>
            prod'[p].pc = "insert" /\ rows' = rows
    /\ (InEnqueue(p) /\ prod'[p] # prod[p]) =>
          /\ prod[p].pc = "insert" => prod'[p].pc \in {"idle", "reselect"}
          /\ prod[p].pc = "reselect" => prod'[p].pc \in {"idle", "reinsert"}
          /\ prod[p].pc = "reinsert" => prod'[p].pc = "idle"
          /\ IF prod'[p].pc = "idle"
             THEN EndsWell(p, prod[p].h, prod[p].pc = "reinsert")
             ELSE rows' = rows /\ prod'[p].h = prod[p].h

\* C32: with dedup on, every enqueue call, alone or racing, ends with a handle
\* to an in-flight row of its own fingerprint or with the error of the second
\* failed insert; it inserts at most one row and retries the insert at most once.
RaceEndsInHandleOrConflict ==
    [][dedup => \A p \in Producers : RaceStep(p)]_vars

\* A call has failed after its retry.
RetryConflicted ==
    /\ dedup
    /\ last.op = "enqueue"
    /\ last.res = -1

\* ------------------------------------------------------------- reclaim's frame
\* A row of fingerprint h that worker w has claimed at time 0 and whose lease
\* runs until l; with l = NULL, a RUNNING row without a lease and without a
\* worker (what --include-null-lease is for).
Leased(h, w, l, c) ==
    [NewRow(h) EXCEPT !.status = "RUNNING", !.attempts = 1, !.enqueued_at = 0,
                      !.started_at = 0, !.last_attempted_at = 0,
                      !.leased_until = l, !.leased_by = IF l = NULL THEN 0 ELSE w,
                      !.cancel_requested = c]

\* The states of the k-th row when the command runs.
ReclaimRows(k) ==
    {[NewRow(NumMainSpecs + k) EXCEPT !.enqueued_at = 0]}
    \cup {Leased(NumMainSpecs + k, k, l, c) : l \in {NULL, 0, 1}, c \in BOOLEAN}

\* Two rows without lock keys, each READY or RUNNING for its own worker; time 1.
InitReclaim ==
    /\ now = 1
    /\ rows \in {<<a, b>> : a \in ReclaimRows(1), b \in ReclaimRows(2)}
    /\ prod = [p \in Producers |-> IdleProd]
    /\ held = [w \in Workers |-> IF rows[w].leased_by = w THEN w ELSE 0]
    /\ rec = IdleRec
    /\ adm = IdleAdm
    /\ paused = {}
    /\ last = NoCall
    /\ dedup = TRUE
    /\ aging = 0
    /\ wfr = [k \in Producers |-> NoRun]
    /\ periodic = HourlyTask
    /\ beat = [s \in Schedulers |-> IdleBeat]
    /\ call = IdleCall
    /\ exe = IdleExe
    /\ doc = IdleDoc
    /\ registry = NoRegistry
    /\ ptasks = NoPeriodic
    /\ sync = IdleSync
    /\ waiter = IdleWait

\* The command, against workers that heartbeat, finish and claim, and the
\* cancel command.
NextReclaim ==
    \/ Tick
    \/ Reclaim
    \/ \E w \in Workers : Heartbeat(w)
    \/ \E w \in Workers : FinalizeOk(w)
    \/ \E w \in Workers : Claim(w)
    \/ \E i \in 1..MaxRows : RunCancel(i)

SpecReclaim == InitReclaim /\ [][NextReclaim]_vars

\* The step is a write of the running reclaim.
ReclaimWrites == rec.pc \in {"update", "save"} /\ rec' # rec

\* The rows the step has modified.
Modified == {i \in Ids : rows'[i] # rows[i]}

\* The rows that matched the selection when the run read the table: all of
\* them, or with --limit the first of them by lease.
Selected ==
    LET S == {i \in DOMAIN rec.seen :
                 /\ rec.seen[i].status = "RUNNING"
                 /\ ~rec.seen[i].cancel_requested
                 /\ IF rec.seen[i].leased_until = NULL THEN rec.incl
                    ELSE rec.seen[i].leased_until < rec.cutoff}
        lease(i) == rec.seen[i].leased_until
        older(j, i) == IF lease(j) = NULL \/ lease(i) = NULL
                       THEN (lease(j) # NULL /\ lease(i) = NULL)
                            \/ (lease(j) = NULL /\ lease(i) = NULL /\ j < i)
                       ELSE lease(j) < lease(i) \/ (lease(j) = lease(i) /\ j < i)
    IN  IF rec.limit > 0
        THEN {i \in S : Cardinality({j \in S : older(j, i)}) < rec.limit}
        ELSE S

\* C33: a reclaim run writes only rows that were RUNNING, not cancel-requested
\* and expired (or without a lease, when asked) when it read them, at most
\* --limit of them, oldest lease first; its reads, and a dry run, write nothing.
ReclaimFrame ==
    [][ rec' # rec =>
          IF rec.pc \in {"update", "save"}
          THEN /\ Modified \subseteq Selected
               /\ rec.limit > 0 => Cardinality(Selected) <= rec.limit
          ELSE rows' = rows
      ]_vars

\* A run with --limit 1 at time 2 has requeued the row with the older lease
\* and left the other expired row alone.
OlderLeaseReclaimed ==
    /\ rec.pc = "idle"
    /\ rows[1].status = "READY"
    /\ rows[1].run_after = 2
    /\ rows[2].status = "RUNNING"
    /\ ~rows[2].cancel_requested
    /\ rows[2].leased_until = 1
    /\ now = 2

\* The row matches the selection of the running reclaim as the table is now.
StillSelected(i) ==
    /\ rows[i].status = "RUNNING"
    /\ ~rows[i].cancel_requested
    /\ IF rows[i].leased_until = NULL THEN rec.incl
       ELSE rows[i].leased_until < rec.cutoff

\* C34: every row a reclaim write modifies matches the selection at the time
\* of the write: a row finalized, heartbeaten or cancel-requested since the
\* read is left as it is.
ReclaimSparesChangedRows ==
    [][ReclaimWrites => \A i \in Modified : StillSelected(i)]_vars

\* ------------------------------------------------------------- the workflow builders
\* The tasks handed to the builders: one without attributes, one with a lock
\* key, a concurrency key and priority, one on the queue of the second database.
BuilderTasks == {PlainTask, TaskOf(1)} \cup {TaskOf(h) : h \in OtherSpecs}

TaskLists(n) == UNION {[1..k -> BuilderTasks] : k \in 1..n}

\* Every producer builds one workflow of any kind; nothing else runs.
NextBuilders ==
    \/ \E p \in Producers : \E tasks \in TaskLists(MaxChain) : ChainCallOf(p, tasks)
    \/ \E p \in Producers : ChainInsert(p)
    \/ \E p \in Producers : \E tasks \in TaskLists(MaxPreds) : GroupCallOf(p, tasks)
    \/ \E p \in Producers : GroupInsert(p)
    \/ \E p \in Producers : \E tasks \in {<<>>} \cup TaskLists(MaxPreds) :
          \E callback \in BuilderTasks : ChordCallOf(p, tasks, callback)
    \/ \E p \in Producers : ChordInsert(p)
    \/ \E p \in Producers : ChordRun(p)

SpecBuilders == InitChain /\ [][NextBuilders]_vars

\* ------------------------------------------------------------- the shape of a chain
\* The rows of workflow k in table t, in insertion order.
WorkflowIds(t, k) == SortedSeq({i \in DOMAIN t : t[i].workflow_id = k})

\* The step inserts one row, the next task of a chain of producer p.
ChainInserts(p) ==
    /\ Len(rows') = Len(rows) + 1
    /\ rows'[Len(rows')].workflow_id = p
    /\ \/ prod[p].op = "chain"
       \/ prod'[p].op = "chain"
       \/ (last' # last /\ last'.op = "chain" /\ last'.p = p)

\* C35: Chain.enqueue inserts its tasks one by one under one workflow_id, the
\* first READY with wait_count 0 and no parent, each later one WAITING with
\* wait_count 1 and the row inserted just before it as parent; it returns the
\* ids of its n rows in task order; every parent_id is a lower id.
ChainLinksInOrder ==
    [][\A p \in Producers :
          /\ ChainInserts(p) =>
                LET r == rows'[Len(rows')]
                    before == WorkflowIds(rows, p)
                IN  /\ \A i \in Ids : rows'[i] = rows[i]
                    /\ IF before = <<>>
                       THEN r.status = "READY" /\ r.wait_count = 0 /\ r.parent_id = 0
                       ELSE /\ r.status = "WAITING" /\ r.wait_count = 1
                            /\ r.parent_id = before[Len(before)]
                            /\ r.parent_id < Len(rows')
          /\ (last' # last /\ last'.op = "chain" /\ last'.p = p /\ last'.res # -1) =>
                /\ last'.out = WorkflowIds(rows', p)
                /\ ChainInserts(p)
                /\ prod[p].pc = "chain" => Len(last'.out) = prod[p].n
      ]_vars

\* A chain of three has been returned: the handles are its rows in order.
ChainOfThreeReturned ==
    /\ last.op = "chain"
    /\ Len(last.out) = 3
    /\ rows[last.out[3]].parent_id = last.out[2]
    /\ rows[last.out[2]].parent_id = last.out[1]
    /\ rows[last.out[1]].parent_id = 0

\* ------------------------------------------------------------- all or nothing
\* C40: after a builder has raised, no TaskRun row and no WorkflowRun row of
\* its workflow is in the tables.
RaisedBuilderLeavesNothing ==
    (last.res = -1 /\ last.op \in {"chain", "group", "chord"}) =>
        /\ \A i \in Ids : rows[i].workflow_id # last.p
        /\ wfr[last.p] = NoRun

\* ------------------------------------------------------------- the pg_cron procedure
\* digest(spec::text, 'sha256') of the spec the procedure builds at time t: the
\* spec holds scheduled_at, so the fingerprint is one per second.
CronHash(t) == 0 - (t + 1)

\* The names the procedure is called with: the PeriodicTask row's and another.
CronNames == {"hourly", "missing"}

\* The argument as the call marker records it.
NameId(name) == IF name = "hourly" THEN 1 ELSE 2

\* plpgsql.variable_conflict of the database: how the name spec_hash, a
\* variable of the procedure and a column of task_runs, is resolved.
VariableConflicts == {"error", "use_variable", "use_column"}

\* The row the procedure's INSERT ... SELECT writes.
CronRow ==
    [NewRow(CronHash(now)) EXCEPT !.queue_name = "default",
                                  !.priority = 0,
                                  !.lock_key = NoKey,
                                  !.concurrency_key = NoKey,
                                  !.concurrency_limit = 0,
                                  !.run_after = now]

\* WHERE NOT EXISTS (SELECT 1 FROM task_runs WHERE task_runs.spec_hash =
\* spec_hash AND status IN ('READY', 'RUNNING')).
CronNotExists(conflict) ==
    IF conflict = "use_column" THEN \A i \in Ids : ~InFlight(rows[i])
    ELSE ActiveIds(rows, CronHash(now)) = {}

\* SELECT reproq_enqueue_periodic_task(name): one statement, one transaction.
EnqueuePeriodicTask(name, conflict) ==
    LET found == name = "hourly" /\ periodic.enabled
        raised == found /\ conflict = "error"
        insert == found /\ ~raised /\ CronNotExists(conflict)
    IN  /\ insert => Len(rows) < MaxRows
        /\ rows' = IF insert THEN Append(rows, CronRow) ELSE rows
        /\ periodic' = IF found /\ ~raised
                       THEN [periodic EXCEPT !.last_run_at = now]
                       ELSE periodic
        /\ last' = [NoCall EXCEPT !.op = "pg_cron", !.h = NameId(name),
                                  !.res = IF raised THEN -1 ELSE 0,
                                  !.created = insert]
        /\ UNCHANGED <<waiter, call, exe, doc, registry, ptasks, sync, now, prod, held, rec, adm,
                       paused, dedup, aging, wfr, beat>>

\* The PeriodicTask row, enabled or disabled, and an empty task_runs.
InitCron ==
    /\ now = 0
    /\ rows = <<>>
    /\ prod = [p \in Producers |-> IdleProd]
    /\ held = [w \in Workers |-> 0]
    /\ rec = IdleRec
    /\ adm = IdleAdm
    /\ paused = {}
    /\ last = NoCall
    /\ dedup = TRUE
    /\ aging = 0
    /\ wfr = [k \in Producers |-> NoRun]
    /\ periodic \in {[HourlyTask EXCEPT !.enabled = e] : e \in BOOLEAN}
    /\ beat = [s \in Schedulers |-> IdleBeat]
    /\ call = IdleCall
    /\ exe = IdleExe
    /\ doc = IdleDoc
    /\ registry = NoRegistry
    /\ ptasks = NoPeriodic
    /\ sync = IdleSync
    /\ waiter = IdleWait

NextCron ==
    \/ Tick
    \/ \E name \in CronNames : \E conflict \in VariableConflicts :
          EnqueuePeriodicTask(name, conflict)
    \/ Claim(1)
    \/ FinalizeOk(1)

SpecCron == InitCron /\ [][NextCron]_vars

\* C36: a call of the procedure for an enabled task inserts one READY row of
\* the task's fingerprint unless one is READY or RUNNING, and sets last_run_at
\* to now and next_run_at to the next cron time; any other call changes nothing.
CronProcedureAsScheduler ==
    [][(last' # last /\ last'.op = "pg_cron") =>
          IF last'.h = NameId("hourly") /\ periodic.enabled
          THEN /\ IF ActiveIds(rows, CronHash(now)) # {} THEN rows' = rows
                  ELSE /\ Len(rows') = Len(rows) + 1
                       /\ \A i \in Ids : rows'[i] = rows[i]
                       /\ rows'[Len(rows')].status = "READY"
                       /\ rows'[Len(rows')].spec_hash = CronHash(now)
               /\ periodic'.last_run_at = now
               /\ periodic'.next_run_at = NextAfter(now)
          ELSE rows' = rows /\ periodic' = periodic
      ]_vars

====
